---- MODULE Spec2Model ----
(***************************************************************************)
(* Pokedex 2.0 (front + back): the Pokemon lookup (getPokemonBasic), the   *)
(* React hooks built on it (usePokemon, useEvolutionChain,                 *)
(* usePokedexLogic) and the user store of the Express backend.             *)
(*                                                                         *)
(* JavaScript strings that the code converts (toLowerCase, parseInt,       *)
(* String, trim) are sequences of one-character strings, so that the       *)
(* conversions are computed character by character.  Opaque strings        *)
(* (sprite URLs, e-mail addresses, passwords) are TLA+ strings.            *)
(***************************************************************************)
EXTENDS Integers, Sequences, FiniteSets, TLC

\* ------------------------------------------------------------------------
\* JavaScript string and number conversions
\* ------------------------------------------------------------------------

Digits == <<"0", "1", "2", "3", "4", "5", "6", "7", "8", "9">>

IsDigit(c) == \E i \in 1..10 : Digits[i] = c

DigitVal(c) == (CHOOSE i \in 1..10 : Digits[i] = c) - 1

UpperChars ==
  <<"A", "B", "C", "D", "E", "F", "G", "H", "I", "J", "K", "L", "M",
    "N", "O", "P", "Q", "R", "S", "T", "U", "V", "W", "X", "Y", "Z">>

LowerChars ==
  <<"a", "b", "c", "d", "e", "f", "g", "h", "i", "j", "k", "l", "m",
    "n", "o", "p", "q", "r", "s", "t", "u", "v", "w", "x", "y", "z">>

\* String.prototype.toLowerCase on one character.
LowerChar(c) ==
  IF \E i \in DOMAIN UpperChars : UpperChars[i] = c
  THEN LowerChars[CHOOSE i \in DOMAIN UpperChars : UpperChars[i] = c]
  ELSE c

RECURSIVE ToLowerCase(_)
ToLowerCase(s) ==
  IF s = <<>> THEN <<>> ELSE <<LowerChar(Head(s))>> \o ToLowerCase(Tail(s))

IsSpace(c) == c = " "

RECURSIVE TrimLeft(_)
TrimLeft(s) ==
  IF s # <<>> /\ IsSpace(Head(s)) THEN TrimLeft(Tail(s)) ELSE s

RECURSIVE TrimRight(_)
TrimRight(s) ==
  IF s # <<>> /\ IsSpace(s[Len(s)]) THEN TrimRight(SubSeq(s, 1, Len(s) - 1)) ELSE s

\* String.prototype.trim
Trim(s) == TrimRight(TrimLeft(s))

\* String(n) for an integer n.
RECURSIVE NatToStr(_)
NatToStr(n) ==
  IF n < 10 THEN <<Digits[n + 1]>>
  ELSE NatToStr(n \div 10) \o <<Digits[(n % 10) + 1]>>

NumToStr(n) == IF n < 0 THEN <<"-">> \o NatToStr(0 - n) ELSE NatToStr(n)

\* The longest prefix of s made of digits.
RECURSIVE DigitPrefix(_)
DigitPrefix(s) ==
  IF s # <<>> /\ IsDigit(Head(s)) THEN <<Head(s)>> \o DigitPrefix(Tail(s)) ELSE <<>>

RECURSIVE DigitsToNat(_)
DigitsToNat(d) ==
  IF d = <<>> THEN 0
  ELSE 10 * DigitsToNat(SubSeq(d, 1, Len(d) - 1)) + DigitVal(d[Len(d)])

\* parseInt(s, 10): leading white space, an optional sign, then the longest
\* run of digits; NaN when there is no digit.  Whatever follows the digits
\* is ignored.
ParseInt(s) ==
  LET t    == TrimLeft(s)
      neg  == t # <<>> /\ Head(t) = "-"
      sgn  == t # <<>> /\ Head(t) \in {"-", "+"}
      body == IF sgn THEN Tail(t) ELSE t
      d    == DigitPrefix(body)
  IN IF d = <<>> THEN [nan |-> TRUE, val |-> 0]
     ELSE [nan |-> FALSE, val |-> IF neg THEN 0 - DigitsToNat(d) ELSE DigitsToNat(d)]

\* /^-?\d+$/.test(v.trim())
IsIntegerStr(v) ==
  LET t    == Trim(v)
      body == IF t # <<>> /\ Head(t) = "-" THEN Tail(t) ELSE t
  IN body # <<>> /\ \A i \in DOMAIN body : IsDigit(body[i])

\* The pieces of s between the occurrences of the separator character sep
\* (String.prototype.split with a one-character separator).
RECURSIVE Split(_, _)
Split(s, sep) ==
  IF \A i \in DOMAIN s : s[i] # sep THEN <<s>>
  ELSE LET k == CHOOSE i \in DOMAIN s :
                  s[i] = sep /\ \A j \in 1..(i - 1) : s[j] # sep
       IN <<SubSeq(s, 1, k - 1)>> \o Split(SubSeq(s, k + 1, Len(s)), sep)

\* Array.prototype.join with a one-character separator.
RECURSIVE Join(_, _)
Join(list, sep) ==
  IF list = <<>> THEN <<>>
  ELSE IF Len(list) = 1 THEN list[1]
  ELSE list[1] \o <<sep>> \o Join(Tail(list), sep)

\* ------------------------------------------------------------------------
\* Values
\* ------------------------------------------------------------------------

\* null / undefined of an opaque string, and of a number.
NULL == "null"

NoNum == 0 - 1

\* A query: a name (string), a numeric id, or null.
QName(s) == [kind |-> "name", s |-> s, n |-> 0]

QId(n) == [kind |-> "id", s |-> <<>>, n |-> n]

QNull == [kind |-> "null", s |-> <<>>, n |-> 0]

\* String(nameOrId)
JsString(q) == IF q.kind = "id" THEN NumToStr(q.n) ELSE q.s

\* Names and types used by the catalog, the store and the queries.
sPikachu == <<"p", "i", "k", "a", "c", "h", "u">>

sRaichu == <<"r", "a", "i", "c", "h", "u">>

sChansey == <<"c", "h", "a", "n", "s", "e", "y">>

sDitto == <<"d", "i", "t", "t", "o">>

sYuli == <<"Y", "u", "l", "i">>

sYulix == <<"Y", "u", "l", "i", "x">>

sElectric == <<"e", "l", "e", "c", "t", "r", "i", "c">>

sNormal == <<"n", "o", "r", "m", "a", "l">>

sWater == <<"w", "a", "t", "e", "r">>

sIce == <<"i", "c", "e">>

\* An entry of the types list of a raw record: the object
\* {type: {name}} of the PokeAPI format, or a bare string.
TypeSlot(name) == [string |-> FALSE, name |-> name]

TypeString(s) == [string |-> TRUE, name |-> s]

\* The object getPokemonBasic returns, in PokeAPI format:
\* artwork is sprites.other['official-artwork'].front_default, front is
\* sprites.front_default, evolves_to is evolution_chain.chain.evolves_to
\* (species names), flavor is flavor_text_entries (the texts), types is
\* the list of the {type: {name}} entries.
Pokemon(id, name, artwork, front, types, height, weight, flavor, evolves, custom) ==
  [id |-> id, name |-> name, artwork |-> artwork, front |-> front, types |-> types,
   height |-> height, weight |-> weight, flavor |-> flavor, evolves_to |-> evolves,
   customPokemon |-> custom]

NoPokemon == Pokemon(0, <<>>, NULL, NULL, <<>>, NoNum, NoNum, <<>>, <<>>, FALSE)

\* The official catalog (PokeAPI), as far as the model looks at it.
OfficialCatalog ==
  { Pokemon(25, sPikachu, "pikachu-artwork.png", "pikachu.png", <<TypeSlot(sElectric)>>,
            4, 60, <<>>, <<>>, FALSE),
    Pokemon(26, sRaichu, NULL, "raichu.png", <<TypeSlot(sElectric)>>,
            8, 300, <<>>, <<>>, FALSE),
    Pokemon(113, sChansey, "chansey-artwork.png", "chansey.png", <<TypeSlot(sNormal)>>,
            11, 346, <<>>, <<>>, FALSE),
    Pokemon(132, sDitto, NULL, NULL, <<TypeSlot(sNormal)>>,
            3, 40, <<>>, <<>>, FALSE) }

\* GET https://pokeapi.co/api/v2/pokemon/{param}: the entry with that name
\* or that id.
OfficialLookup(param) ==
  LET hit == {e \in OfficialCatalog : e.name = param \/ NumToStr(e.id) = param}
  IN IF hit = {} THEN [found |-> FALSE, p |-> NoPokemon]
     ELSE [found |-> TRUE, p |-> CHOOSE e \in hit : TRUE]

\* A row of the custom_pokemons table: types is the comma-joined string,
\* evolutions is null or the JSON text of a list.
Row(id, name, types, sprite, description, height, weight, evoNull, evoList, createdBy) ==
  [id |-> id, name |-> name, types |-> types, sprite |-> sprite,
   description |-> description, height |-> height, weight |-> weight,
   evolutions |-> [null |-> evoNull, list |-> evoList], createdBy |-> createdBy]

\* What the read functions of the database layer return for a row: types
\* split on commas, evolutions parsed (or the empty list).
FormatRow(row) ==
  [row EXCEPT !.types = Split(row.types, ","),
              !.evolutions = IF row.evolutions.null THEN <<>> ELSE row.evolutions.list]

NoRow == FormatRow(Row(0, <<>>, <<>>, NULL, NULL, NoNum, NoNum, TRUE, <<>>, NULL))

\* getAllCustomPokemons: every row, in the order of the table.
GetAllCustomPokemons(rows) == [i \in DOMAIN rows |-> FormatRow(rows[i])]

\* getCustomPokemonById: findUnique by id.
GetCustomPokemonById(rows, id) ==
  LET hit == {i \in DOMAIN rows : rows[i].id = id}
  IN IF hit = {} THEN [found |-> FALSE, row |-> NoRow]
     ELSE [found |-> TRUE, row |-> FormatRow(rows[CHOOSE i \in hit : TRUE])]

\* GET /api/pokemon/custom/:id on the server: by id when parseInt gives a
\* number and a row has that id, else the first row whose name matches
\* without regard to case, else 404.
CustomRoute(rows, idParam) ==
  LET numId  == ParseInt(idParam)
      byId   == IF numId.nan THEN [found |-> FALSE, row |-> NoRow]
                ELSE GetCustomPokemonById(rows, numId.val)
      all    == GetAllCustomPokemons(rows)
      named  == {i \in DOMAIN all : ToLowerCase(all[i].name) = ToLowerCase(idParam)}
      first  == CHOOSE i \in named : \A j \in named : i <= j
  IN IF byId.found THEN byId
     ELSE IF named # {} THEN [found |-> TRUE, row |-> all[first]]
     ELSE [found |-> FALSE, row |-> NoRow]

\* a || b on opaque strings: b when a is null, undefined or empty.
OrElse(a, b) == IF a = NULL \/ a = "" THEN b ELSE a

\* Step 3 of getPokemonBasic: the custom record in PokeAPI format.  The
\* store has no `image` column, so sprite || image is the sprite or
\* undefined.
TransformCustom(c) ==
  Pokemon(c.id, c.name, OrElse(c.sprite, NULL), OrElse(c.sprite, NULL),
          [i \in DOMAIN c.types |-> TypeSlot(c.types[i])],
          IF c.height = NoNum \/ c.height = 0 THEN 10 ELSE c.height,
          IF c.weight = NoNum \/ c.weight = 0 THEN 10 ELSE c.weight,
          IF OrElse(c.description, NULL) = NULL THEN <<>> ELSE <<c.description>>,
          c.evolutions, TRUE)

\* `/pokemon/${searchParam}`: String(nameOrId).toLowerCase()
SearchParam(q) == ToLowerCase(JsString(q))

\* getPokemonBasic that asks the custom store whatever the official source
\* answered.
OfficialStepFallsThrough(q, answered) == [ret |-> FALSE, p |-> NoPokemon]

\* Step 1 of getPokemonBasic, once the official request has settled:
\* answered tells whether a response arrived (no network error, no abort).
\* A successful answer is returned at once; anything else goes on to the
\* custom store.
OfficialStep(q, answered) ==
  LET r == OfficialLookup(SearchParam(q))
  IN IF answered /\ r.found THEN [ret |-> TRUE, p |-> r.p]
     ELSE [ret |-> FALSE, p |-> NoPokemon]

\* Step 2 and 4 of getPokemonBasic, once the request to the custom store
\* has settled: the transformed record, or the not-found error.
CustomStep(rows, q, answered) ==
  LET r == CustomRoute(rows, SearchParam(q))
  IN IF answered /\ r.found THEN [ret |-> TRUE, p |-> TransformCustom(r.row)]
     ELSE [ret |-> FALSE, p |-> NoPokemon]

\* new Error(`Pokémon "${searchParam}" no encontrado`)
NotFoundError(q) == [name |-> "Error", message |-> "no encontrado", about |-> SearchParam(q)]

NoError == [name |-> "", message |-> "", about |-> <<>>]

\* ------------------------------------------------------------------------
\* State
\* ------------------------------------------------------------------------

VARIABLES
  customPokemons,  \* the rows of the custom_pokemons table, in id order
  ops,             \* the asynchronous operations started so far, in order
  hooks,           \* the state of each hook instance of the page
  cache,           \* the module-level Map of usePokemon: {[key, val]}
  renders,         \* how many times a hook was rendered with a new argument
  logic,           \* the state of usePokedexLogic (the main screen)
  backend          \* the users table, the tokens issued, the server process

vars == <<customPokemons, ops, hooks, cache, renders, logic, backend>>

\* Bounds of the model.
MaxCalls == 1

MaxRenders == 3

MaxEvents == 2

MaxUsers == 3

MaxStarts == 2

\* An operation: a call of getPokemonBasic made directly ("direct") or the
\* async body of a hook's effect.  aborted is the state of the signal it
\* was given; offAnswer and custAnswer record what the two sources did
\* ("pending"/"unsent", "hit", "miss", "neterr", "abort").
Op(caller, hook, arg) ==
  [caller |-> caller, hook |-> hook, arg |-> arg, aborted |-> FALSE,
   pc |-> "pokeapi", offAnswer |-> "pending", custAnswer |-> "unsent",
   p |-> NoPokemon, err |-> NoError, cut |-> FALSE,
   chain |-> <<>>, sprites |-> <<>>, lookups |-> <<>>, tree |-> [null |-> TRUE]]

\* The async body of a hook has run to its end: its locals are gone, what
\* is left is how it ended.
Ended(o, e) ==
  [o EXCEPT !.pc = "done", !.err = e, !.p = NoPokemon,
            !.offAnswer = "-", !.custAnswer = "-",
            !.chain = <<>>, !.sprites = <<>>, !.lookups = <<>>]

\* What a fetch does when it settles: net is what the network did.
Answer(o, net, found) ==
  IF o.aborted THEN "abort"
  ELSE IF net = "neterr" THEN "neterr"
  ELSE IF found THEN "hit" ELSE "miss"

Answered(o, net) == ~o.aborted /\ net = "response"

Network == {"response", "neterr"}

\* fetch rejects with an AbortError when its signal is aborted, with a
\* TypeError when the network fails.
AbortError == [name |-> "AbortError", message |-> "The user aborted a request.", about |-> <<>>]

NetworkError == [name |-> "TypeError", message |-> "Failed to fetch", about |-> <<>>]

FetchError(o) == IF o.aborted THEN AbortError ELSE NetworkError

\* --- the users of the backend -------------------------------------------

FIRST_ADMIN_EMAIL ==
  <<"j", "u", "a", "n", "@", "u", "n", "a", "l", ".", "e", "d", "u", ".", "c", "o">>

FIRST_ADMIN_PASSWORD == <<"1", "2", "3", "4", "5">>

\* bcrypt.hash and bcrypt.compare: bcrypt reads the first 72 bytes of the
\* password and ignores the rest, so a hash matches every password that has
\* the same first 72 bytes as the one it was made from, and no other.
HashPassword(password) ==
  [bcrypt |-> IF Len(password) > 72 THEN SubSeq(password, 1, 72) ELSE password]

VerifyPassword(password, hash) == hash = HashPassword(password)

\* A response: the route that answered, the status and the JSON body.
Response(route, status, body) == [route |-> route, status |-> status, body |-> body]

\* res.status(...).json({ error })
ErrorBody(msg) == [error |-> msg]

NoResponse == Response("", 0, ErrorBody(""))

\* The backend before the server process was ever started: an empty users
\* table, no token issued.  starts counts the runs of startServer,
\* firstAdmin is the id the first initializeDatabase returned, pending holds
\* the registrations that passed the checks of the route and wait for
\* createUser, last is the response sent last.
NoBackend ==
  [users |-> <<>>, tokens |-> {}, listening |-> FALSE, starts |-> 0, firstAdmin |-> 0,
   pending |-> {}, last |-> NoResponse]

\* The handler sends its response.
Respond(b, route, status, body) == [b EXCEPT !.last = Response(route, status, body)]

GetUserByEmail(users, email) == {i \in DOMAIN users : users[i].email = email}

GetUserById(users, id) == {i \in DOMAIN users : users[i].id = id}

\* prisma.user.create: the unique indexes on username and on email reject
\* the row (the call throws), else the row is added with a fresh id.
CanCreate(users, data) ==
  \A i \in DOMAIN users :
    users[i].username # data.username /\ users[i].email # data.email

Create(users, data) == Append(users, [data EXCEPT !.id = Len(users) + 1])

\* createUser that marks every new user as the first administrator.
NewUserFirstAdmin(username, email, password) ==
  [id |-> 0, username |-> username, email |-> email,
   password |-> HashPassword(password), isAdmin |-> FALSE, isFirstAdmin |-> TRUE]

\* The data createUser passes to prisma.user.create.
NewUser(username, email, password) ==
  [id |-> 0, username |-> username, email |-> email,
   password |-> HashPassword(password), isAdmin |-> FALSE, isFirstAdmin |-> FALSE]

\* The data initializeDatabase passes to prisma.user.create.
FirstAdminData ==
  [id |-> 0, username |-> <<"j", "u", "a", "n">>, email |-> FIRST_ADMIN_EMAIL,
   password |-> HashPassword(FIRST_ADMIN_PASSWORD),
   isAdmin |-> TRUE, isFirstAdmin |-> TRUE]

\* initializeDatabase: [ok, users, admin]; ok is false when it throws.
InitializeDatabase(users) ==
  LET adminExists == GetUserByEmail(users, FIRST_ADMIN_EMAIL)
  IN IF adminExists = {}
     THEN IF CanCreate(users, FirstAdminData)
          THEN [ok |-> TRUE, users |-> Create(users, FirstAdminData),
                admin |-> Len(users) + 1]
          ELSE [ok |-> FALSE, users |-> users, admin |-> 0]
     ELSE [ok |-> TRUE, users |-> users,
           admin |-> users[CHOOSE i \in adminExists : TRUE].id]

\* validator.isEmail, as far as the addresses of the model go: one @ with
\* something before it and a dotted domain after it.
IsEmail(e) ==
  \E k \in DOMAIN e :
    /\ e[k] = "@"
    /\ \A j \in DOMAIN e : e[j] = "@" => j = k
    /\ k > 1
    /\ \E d \in (k + 2)..(Len(e) - 1) : e[d] = "."

\* The JWT generateToken signs; verifyToken accepts the tokens that were
\* issued.
JwtPayload(user) == [userId |-> user.id, email |-> user.email, isAdmin |-> user.isAdmin]

\* promoteUserToAdmin
PromoteUserToAdmin(users, id) ==
  [i \in DOMAIN users |->
     IF users[i].id = id THEN [users[i] EXCEPT !.isAdmin = TRUE] ELSE users[i]]

\* demoteAdminToUser: refused (null) for the first administrator.
DemoteAdminToUser(users, id) ==
  [i \in DOMAIN users |->
     IF users[i].id = id /\ ~users[i].isFirstAdmin
     THEN [users[i] EXCEPT !.isAdmin = FALSE] ELSE users[i]]

\* --- the middlewares and the routes of the users ------------------------

\* The Authorization header without a token.
NoToken == [userId |-> 0, email |-> <<>>, isAdmin |-> FALSE]

\* A middleware calls next(), or answers with a status and an error.
CallNext == [status |-> 0, error |-> ""]

Reject(status, msg) == [status |-> status, error |-> msg]

\* authenticateToken: the payload of the token becomes req.user.
AuthenticateToken(b, token) ==
  IF token = NoToken THEN Reject(401, "Token no proporcionado")
  ELSE IF token \notin b.tokens THEN Reject(403, "Token invalido o expirado")
  ELSE CallNext

\* requireAdmin that lets every authenticated caller through.
RequireAdminSkipped(token) == CallNext

\* requireAdmin: reads isAdmin of the token's payload.
RequireAdmin(token) ==
  IF ~token.isAdmin THEN Reject(403, "Se requiere permisos de administrador")
  ELSE CallNext

\* authenticateToken, requireAdmin in front of a route.
AdminGate(b, token) ==
  LET a == AuthenticateToken(b, token)
  IN IF a.status # 0 THEN a ELSE RequireAdmin(token)

\* The user object of the register, login and GET /api/users/:id responses.
UserFields(u) ==
  [id |-> u.id, username |-> u.username, email |-> u.email,
   isAdmin |-> u.isAdmin, isFirstAdmin |-> u.isFirstAdmin]

\* The user object of the promote and demote responses.
RoleFields(u) ==
  [id |-> u.id, username |-> u.username, email |-> u.email, isAdmin |-> u.isAdmin]

\* Validations 1 to 5 of POST /api/auth/register.
RegisterValidation(username, email, password) ==
  IF username = <<>> \/ email = <<>> \/ password = <<>>
  THEN Reject(400, "Username, email y password son requeridos")
  ELSE IF ~IsEmail(email) THEN Reject(400, "Email invalido (debe ser formato valido)")
  ELSE IF Len(username) < 3 \/ Len(username) > 30
  THEN Reject(400, "Username debe tener entre 3 y 30 caracteres")
  ELSE IF Len(password) < 6
  THEN Reject(400, "La contrasena debe tener al menos 6 caracteres")
  ELSE IF Len(password) > 100
  THEN Reject(400, "La contrasena no puede exceder 100 caracteres")
  ELSE CallNext

\* POST /api/auth/register from createUser on: the unique indexes make
\* prisma.user.create throw (500), else the user is stored and a token for
\* it is signed (201).
RegisterCreate(b, username, email, password) ==
  LET data == NewUser(username, email, password)
  IN IF ~CanCreate(b.users, data)
     THEN Respond(b, "register", 500, ErrorBody("Error al registrar usuario"))
     ELSE LET users == Create(b.users, data)
              user  == users[Len(users)]
          IN Respond([b EXCEPT !.users = users, !.tokens = @ \cup {JwtPayload(user)}],
                     "register", 201,
                     [message |-> "Usuario registrado exitosamente",
                      token |-> JwtPayload(user), user |-> UserFields(user)])

\* POST /api/auth/register up to createUser: cont tells that the checks
\* passed and createUser is called next.
RegisterChecks(b, username, email, password) ==
  LET v == RegisterValidation(username, email, password)
  IN IF v.status # 0
     THEN [cont |-> FALSE, b |-> Respond(b, "register", v.status, ErrorBody(v.error))]
     ELSE IF GetUserByEmail(b.users, email) # {}
     THEN [cont |-> FALSE,
           b |-> Respond(b, "register", 409, ErrorBody("El email ya esta registrado"))]
     ELSE [cont |-> TRUE, b |-> b]

\* POST /api/auth/register, served without another request in between.
RegisterRoute(b, username, email, password) ==
  LET c == RegisterChecks(b, username, email, password)
  IN IF c.cont THEN RegisterCreate(c.b, username, email, password) ELSE c.b

\* POST /api/auth/login
LoginRoute(b, email, password) ==
  LET found == GetUserByEmail(b.users, email)
      user  == b.users[CHOOSE i \in found : TRUE]
  IN IF email = <<>> \/ password = <<>>
     THEN Respond(b, "login", 400, ErrorBody("Email y password son requeridos"))
     ELSE IF ~IsEmail(email)
     THEN Respond(b, "login", 400, ErrorBody("Email invalido (debe ser formato valido)"))
     ELSE IF found = {}
     THEN Respond(b, "login", 401, ErrorBody("Credenciales invalidas"))
     ELSE IF ~VerifyPassword(password, user.password)
     THEN Respond(b, "login", 401, ErrorBody("Credenciales invalidas"))
     ELSE Respond([b EXCEPT !.tokens = @ \cup {JwtPayload(user)}], "login", 200,
                  [message |-> "Sesion iniciada exitosamente",
                   token |-> JwtPayload(user), user |-> UserFields(user)])

\* GET /api/users/:id without the self-or-admin check.
GetUserRouteOpen(b, token, targetId) ==
  LET a     == AuthenticateToken(b, token)
      found == GetUserById(b.users, targetId)
      user  == b.users[CHOOSE i \in found : TRUE]
  IN IF a.status # 0 THEN Respond(b, "getUser", a.status, ErrorBody(a.error))
     ELSE IF found = {}
     THEN Respond(b, "getUser", 404, ErrorBody("Usuario no encontrado"))
     ELSE Respond(b, "getUser", 200, UserFields(user))

\* GET /api/users/:id
GetUserRoute(b, token, targetId) ==
  LET a     == AuthenticateToken(b, token)
      found == GetUserById(b.users, targetId)
      user  == b.users[CHOOSE i \in found : TRUE]
      isSelfRequest == token.userId = targetId
  IN IF a.status # 0 THEN Respond(b, "getUser", a.status, ErrorBody(a.error))
     ELSE IF found = {}
     THEN Respond(b, "getUser", 404, ErrorBody("Usuario no encontrado"))
     ELSE IF ~isSelfRequest /\ ~token.isAdmin
     THEN Respond(b, "getUser", 403, ErrorBody("No tienes permisos para ver este usuario"))
     ELSE Respond(b, "getUser", 200, UserFields(user))

\* The promote route without the check that the target is not yet an
\* administrator.
PromoteRouteUnchecked(b, token, targetId) ==
  LET a      == AdminGate(b, token)
      found  == GetUserById(b.users, targetId)
      users  == PromoteUserToAdmin(b.users, targetId)
  IN IF a.status # 0 THEN Respond(b, "promote", a.status, ErrorBody(a.error))
     ELSE IF found = {}
     THEN Respond(b, "promote", 404, ErrorBody("Usuario no encontrado"))
     ELSE Respond([b EXCEPT !.users = users], "promote", 200,
                  [message |-> "Usuario promovido a administrador",
                   user |-> RoleFields(users[CHOOSE i \in found : TRUE])])

\* PATCH /api/users/:id/promote
PromoteRoute(b, token, targetId) ==
  LET a      == AdminGate(b, token)
      found  == GetUserById(b.users, targetId)
      target == b.users[CHOOSE i \in found : TRUE]
      users  == PromoteUserToAdmin(b.users, targetId)
  IN IF a.status # 0 THEN Respond(b, "promote", a.status, ErrorBody(a.error))
     ELSE IF found = {}
     THEN Respond(b, "promote", 404, ErrorBody("Usuario no encontrado"))
     ELSE IF target.isAdmin
     THEN Respond(b, "promote", 400, ErrorBody("El usuario ya es administrador"))
     ELSE Respond([b EXCEPT !.users = users], "promote", 200,
                  [message |-> "Usuario promovido a administrador",
                   user |-> RoleFields(users[CHOOSE i \in found : TRUE])])

\* The demote route without the protection of the first administrator, in
\* the route and in the database layer.
DemoteRouteUnprotected(b, token, targetId) ==
  LET a      == AdminGate(b, token)
      found  == GetUserById(b.users, targetId)
      target == b.users[CHOOSE i \in found : TRUE]
      users  == [i \in DOMAIN b.users |->
                   IF b.users[i].id = targetId
                   THEN [b.users[i] EXCEPT !.isAdmin = FALSE] ELSE b.users[i]]
  IN IF a.status # 0 THEN Respond(b, "demote", a.status, ErrorBody(a.error))
     ELSE IF found = {}
     THEN Respond(b, "demote", 404, ErrorBody("Usuario no encontrado"))
     ELSE IF ~target.isAdmin
     THEN Respond(b, "demote", 400, ErrorBody("El usuario no es administrador"))
     ELSE Respond([b EXCEPT !.users = users], "demote", 200,
                  [message |-> "Usuario degradado a usuario regular",
                   user |-> RoleFields(users[CHOOSE i \in found : TRUE])])

\* PATCH /api/users/:id/demote
DemoteRoute(b, token, targetId) ==
  LET a      == AdminGate(b, token)
      found  == GetUserById(b.users, targetId)
      target == b.users[CHOOSE i \in found : TRUE]
      users  == DemoteAdminToUser(b.users, targetId)
  IN IF a.status # 0 THEN Respond(b, "demote", a.status, ErrorBody(a.error))
     ELSE IF found = {}
     THEN Respond(b, "demote", 404, ErrorBody("Usuario no encontrado"))
     ELSE IF ~target.isAdmin
     THEN Respond(b, "demote", 400, ErrorBody("El usuario no es administrador"))
     ELSE IF target.isFirstAdmin
     THEN Respond(b, "demote", 403, ErrorBody("No se puede degradar al primer administrador"))
     ELSE IF users = b.users
     THEN Respond(b, "demote", 400, ErrorBody("No se puede degradar a este usuario"))
     ELSE Respond([b EXCEPT !.users = users], "demote", 200,
                  [message |-> "Usuario degradado a usuario regular",
                   user |-> RoleFields(users[CHOOSE i \in found : TRUE])])

\* getAllUsers: the selected fields of every user.
GetAllUsers(users) == [i \in DOMAIN users |-> UserFields(users[i])]

\* GET /api/users
ListUsersRoute(b, token) ==
  LET a == AdminGate(b, token)
  IN IF a.status # 0 THEN Respond(b, "listUsers", a.status, ErrorBody(a.error))
     ELSE Respond(b, "listUsers", 200, GetAllUsers(b.users))

\* GET /api/auth/me
MeRoute(b, token) ==
  LET a     == AuthenticateToken(b, token)
      found == GetUserById(b.users, token.userId)
  IN IF a.status # 0 THEN Respond(b, "me", a.status, ErrorBody(a.error))
     ELSE IF found = {}
     THEN Respond(b, "me", 404, ErrorBody("Usuario no encontrado"))
     ELSE Respond(b, "me", 200, UserFields(b.users[CHOOSE i \in found : TRUE]))

\* The hook instances of a page, and the hook each one is.
HookIds == {"p1", "p2", "e1"}

HookKind(h) == IF h = "e1" THEN "useEvolutionChain" ELSE "usePokemon"

NoData == [null |-> TRUE]

\* The state of a hook instance: the useState cells, the ref, and the
\* cleanup React holds for the last run of the effect (the operation whose
\* controller it aborts, 0 when the effect returned no cleanup).  cut
\* remembers the operation that was in flight when the last change of the
\* argument aborted it (0: none).
HookState(mounted) ==
  [mounted |-> mounted, query |-> QNull, data |-> NoData, error |-> NoError,
   loading |-> FALSE, ctrlRef |-> 0, cleanup |-> 0, cut |-> 0]

\* The state the operators below transform.
World == [ops |-> ops, hooks |-> hooks, cache |-> cache, logic |-> logic]

\* A state setter of a hook: React drops the update of an unmounted
\* component.
SetData(w, h, v) == IF w.hooks[h].mounted THEN [w EXCEPT !.hooks[h].data = v] ELSE w

SetError(w, h, e) ==
  IF w.hooks[h].mounted THEN [w EXCEPT !.hooks[h].error = [e EXCEPT !.name = ""]] ELSE w

SetLoading(w, h, b) == IF w.hooks[h].mounted THEN [w EXCEPT !.hooks[h].loading = b] ELSE w

\* controller.abort() of operation i (i = 0: there is none).
AbortOp(w, i) ==
  IF i = 0 THEN w
  ELSE [w EXCEPT !.ops[i].aborted = TRUE,
                 !.ops[i].cut = @ \/ (~w.ops[i].aborted /\ w.ops[i].pc # "done")]

\* React runs the cleanup the last effect run returned.
CleanupSkipped(w, h) == [w EXCEPT !.hooks[h].cleanup = 0]

RunCleanup(w, h) == [AbortOp(w, w.hooks[h].cleanup) EXCEPT !.hooks[h].cleanup = 0]

\* ctrlRef.current?.abort(); new AbortController(); the async body starts
\* (its first request is sent); the effect returns () => ctrl.abort().
StartOp(w, h, arg) ==
  LET w1 == AbortOp(w, w.hooks[h].ctrlRef)
      n  == Len(w1.ops) + 1
  IN [w1 EXCEPT !.ops = Append(@, Op(HookKind(h), h, arg)),
                !.hooks[h].ctrlRef = n,
                !.hooks[h].cleanup = n]

\* --- usePokemon ---------------------------------------------------------

CacheHas(c, k) == \E e \in c : e.key = k

CacheGet(c, k) == (CHOOSE e \in c : e.key = k).val

CacheSet(c, k, v) == {e \in c : e.key # k} \cup {[key |-> k, val |-> v]}

\* A cache key that keeps the letter case of the query.
CacheKeyAsTyped(q) == q

\* key = typeof query === 'string' ? query.toLowerCase() : query
CacheKey(q) == IF q.kind = "name" THEN QName(ToLowerCase(q.s)) ELSE q

\* a ?? b on opaque strings.
Coalesce(a, b) == IF a = NULL THEN b ELSE a

PokemonBasic(id, name, sprite, types, height, weight, flavorText) ==
  [id |-> id, name |-> name, sprite |-> sprite, types |-> types,
   height |-> height, weight |-> weight, flavorText |-> flavorText]

\* The first entry of flavor_text_entries with a non-empty text.
FirstFlavor(entries) ==
  LET ok == {i \in DOMAIN entries : entries[i] # "" /\ entries[i] # NULL}
  IN IF ok = {} THEN NULL ELSE entries[CHOOSE i \in ok : \A j \in ok : i <= j]

\* The custom branch of the mapping of usePokemon; a type entry gives
\* itself when it is a string and its type.name otherwise.
MapCustom(p) ==
  PokemonBasic(p.id, p.name, Coalesce(p.artwork, Coalesce(p.front, NULL)),
               [i \in DOMAIN p.types |-> p.types[i].name],
               IF p.height = NoNum \/ p.height = 0 THEN 10 ELSE p.height,
               IF p.weight = NoNum \/ p.weight = 0 THEN 10 ELSE p.weight,
               Coalesce(FirstFlavor(p.flavor), "Custom Pokemon"))

\* GET /pokemon-species/{id}: the English flavor text of an official entry.
SpeciesFlavor(id) ==
  IF id = 25 THEN "When several of these gather, lightning storms follow."
  ELSE IF id = 113 THEN "A kindly POKEMON that shares its eggs."
  ELSE NULL

\* t.type.name of the official branch throws on an entry that is a string
\* (t.type is undefined).
MapOfficialThrows(p) == \E i \in DOMAIN p.types : p.types[i].string

MapTypeError ==
  [name |-> "TypeError", message |-> "Cannot read properties of undefined", about |-> <<>>]

\* The official branch of the mapping of usePokemon, when it does not throw.
MapOfficial(p, flavor) ==
  PokemonBasic(p.id, p.name, Coalesce(p.artwork, Coalesce(p.front, NULL)),
               [i \in DOMAIN p.types |-> p.types[i].name],
               p.height, p.weight, Coalesce(flavor, ""))

\* The effect of usePokemon for query q.
UsePokemonEffect(w, h, q) ==
  IF q.kind = "null" \/ (q.kind = "name" /\ q.s = <<>>) THEN w
  ELSE LET key == CacheKey(q)
       IN IF CacheHas(w.cache, key)
          THEN SetLoading(SetError(SetData(w, h, CacheGet(w.cache, key)), h, NoError), h, FALSE)
          ELSE StartOp(SetError(SetLoading(w, h, TRUE), h, NoError), h, key)

\* The try block of usePokemon after getPokemonBasic returned p.
PokemonGotBasic(w, i, o, p) ==
  IF p.customPokemon
  THEN LET w1 == [w EXCEPT !.ops[i] = Ended(o, NoError),
                           !.cache = CacheSet(@, o.arg, MapCustom(p))]
       IN SetLoading(SetData(w1, o.hook, MapCustom(p)), o.hook, FALSE)
  ELSE [w EXCEPT !.ops[i] = [o EXCEPT !.pc = "species", !.p = p]]

\* catch (e) { setError(e.message); setData(null) } finally { setLoading(false) }
PokemonCaught(w, i, o, e) ==
  LET w1 == [w EXCEPT !.ops[i] = Ended(o, e)]
  IN SetLoading(SetData(SetError(w1, o.hook, e), o.hook, NoData), o.hook, FALSE)

\* The try block of usePokemon after getSpecies returned.
PokemonGotSpecies(w, i, o) ==
  LET m  == MapOfficial(o.p, SpeciesFlavor(o.p.id))
      w1 == [w EXCEPT !.ops[i] = Ended(o, NoError),
                      !.cache = CacheSet(@, o.arg, m)]
  IN IF MapOfficialThrows(o.p) THEN PokemonCaught(w, i, o, MapTypeError)
     ELSE SetLoading(SetData(w1, o.hook, m), o.hook, FALSE)

\* --- useEvolutionChain --------------------------------------------------

\* evolution_details[0] of a node of the upstream chain, as far as the model
\* looks at it; the root and a custom evolution have none.
RawDetails(trigger, min_level) == [null |-> FALSE, trigger |-> trigger, min_level |-> min_level]

NullDetails == [null |-> TRUE, trigger |-> "", min_level |-> 0]

\* mapDetails
MapDetails(raw) ==
  IF raw.null THEN NullDetails
  ELSE [null |-> FALSE, trigger |-> raw.trigger, min_level |-> raw.min_level]

\* A node of an upstream chain.  A chain is the list of its nodes, parents
\* before children (parent = 0 for the root), the evolves_to of a node in
\* the order of the list.
ChainNode(name, parent, details) == [name |-> name, parent |-> parent, details |-> details]

\* GET /pokemon-species/{id} then its evolution_chain.url: the chain of an
\* official entry; empty when the species has no chain registered.
SpeciesChain(id) ==
  IF id \in {25, 26}
  THEN <<ChainNode(sPikachu, 0, NullDetails),
         ChainNode(sRaichu, 1, RawDetails("use-item", 0))>>
  ELSE IF id = 113 THEN <<ChainNode(sChansey, 0, NullDetails)>>
  ELSE <<>>

NoChainError ==
  [name |-> "Error", message |-> "Este Pokemon no tiene cadena evolutiva registrada",
   about |-> <<>>]

EvoStage(name, sprite, detailsFromPrev, children) ==
  [name |-> name, sprite |-> sprite, detailsFromPrev |-> detailsFromPrev,
   children |-> children]

\* pokemonData.sprites.other['official-artwork'].front_default ??
\* pokemonData.sprites.front_default ?? null
SpriteOf(p) == Coalesce(p.artwork, Coalesce(p.front, NULL))

\* The try block of enrichWithSprite: getPokemonBasic for the name, whose
\* two requests settle as answeredO and answeredC tell.  threw tells that
\* getPokemonBasic threw, raw is the sprite read from what it returned.
SpriteLookup(rows, name, answeredO, answeredC) ==
  LET off  == OfficialStep(QName(name), answeredO)
      cust == CustomStep(rows, QName(name), answeredC)
  IN IF off.ret THEN [threw |-> FALSE, raw |-> SpriteOf(off.p)]
     ELSE IF cust.ret THEN [threw |-> FALSE, raw |-> SpriteOf(cust.p)]
     ELSE [threw |-> TRUE, raw |-> NULL]

\* enrichWithSprite(name, signal): the sprite when it is not empty; any
\* failure gives null.
EnrichWithSprite(rows, name, answeredO, answeredC) ==
  LET l == SpriteLookup(rows, name, answeredO, answeredC)
  IN IF l.threw THEN NULL ELSE OrElse(l.raw, NULL)

\* The members of idx among 1..n, in increasing order.
RECURSIVE Select(_, _)
Select(idx, n) ==
  IF n = 0 THEN <<>>
  ELSE IF n \in idx THEN Append(Select(idx, n - 1), n) ELSE Select(idx, n - 1)

\* node.evolves_to of node k of a chain: the positions of its branches.
Branches(chain, k) == Select({j \in DOMAIN chain : chain[j].parent = k}, Len(chain))

\* buildStage that leaves out the evolutions of the evolutions.
RECURSIVE BuildStageShallow(_, _, _)
BuildStageShallow(chain, sprites, k) ==
  EvoStage(chain[k].name, sprites[k], NullDetails,
           [b \in DOMAIN Branches(chain, k) |->
              EvoStage(chain[Branches(chain, k)[b]].name, sprites[Branches(chain, k)[b]],
                       MapDetails(chain[Branches(chain, k)[b]].details), <<>>)])

\* buildStage(node, signal) for node k of a chain, with the sprites that
\* enrichWithSprite found for the nodes: the stage is returned with
\* detailsFromPrev = null, each child is built the same way and then given
\* the details of its branch.
RECURSIVE BuildStage(_, _, _)
BuildStage(chain, sprites, k) ==
  EvoStage(chain[k].name, sprites[k], NullDetails,
           [b \in DOMAIN Branches(chain, k) |->
              [BuildStage(chain, sprites, Branches(chain, k)[b]) EXCEPT
                 !.detailsFromPrev = MapDetails(chain[Branches(chain, k)[b]].details)]])

\* evo.species?.name || evo for an entry of evolves_to of a custom
\* Pokemon, which getPokemonBasic made { species: { name: evo } }: an
\* empty name is falsy, the entry object itself becomes the name.
ObjectName == <<"[object Object]">>

ChildName(evo) == IF evo = <<>> THEN ObjectName ELSE evo

\* The evolutions of a custom Pokemon as branches of its root.
CustomBranches(p) ==
  [k \in DOMAIN p.evolves_to |-> ChainNode(ChildName(p.evolves_to[k]), 0, NullDetails)]

\* A root of a custom Pokemon whose evolutions hang one under the other.
RECURSIVE NestedStages(_, _, _)
NestedStages(chain, sprites, k) ==
  IF k > Len(chain) THEN <<>>
  ELSE <<EvoStage(chain[k].name, sprites[k], NullDetails, NestedStages(chain, sprites, k + 1))>>

CustomRootNested(p, chain, sprites) ==
  EvoStage(p.name, SpriteOf(p), NullDetails, NestedStages(chain, sprites, 1))

\* The root of a custom Pokemon: its evolutions are its children.
CustomRoot(p, chain, sprites) ==
  EvoStage(p.name, SpriteOf(p), NullDetails,
           [k \in DOMAIN chain |-> EvoStage(chain[k].name, sprites[k], NullDetails, <<>>)])

\* !nameOrId
Falsy(q) ==
  \/ q.kind = "null"
  \/ q.kind = "name" /\ q.s = <<>>
  \/ q.kind = "id" /\ q.n = 0

\* The effect of useEvolutionChain for nameOrId = q.
UseEvolutionChainEffect(w, h, q) ==
  IF Falsy(q) THEN SetError(SetData(w, h, NoData), h, NoError)
  ELSE StartOp(SetError(w, h, NoError), h, q)

\* setData(root), then finally { setLoading(false) }.
EvoFinished(w, i, o, root) ==
  LET w1 == [w EXCEPT !.ops[i] = Ended(o, NoError)]
  IN SetLoading(SetData(w1, o.hook, root), o.hook, FALSE)

\* The try block of useEvolutionChain after getPokemonBasic returned p.
EvoGotBasic(w, i, o, p) ==
  IF p.customPokemon
  THEN IF p.evolves_to = <<>>
       THEN EvoFinished(w, i, o, CustomRoot(p, <<>>, <<>>))
       ELSE [w EXCEPT !.ops[i] =
               [o EXCEPT !.pc = "sprites", !.p = p, !.chain = CustomBranches(p)]]
  ELSE [w EXCEPT !.ops[i] = [o EXCEPT !.pc = "species", !.p = p]]

\* catch (e) { if (e?.name === 'AbortError') return; setError(...);
\* setData(null) } finally { setLoading(false) }
EvoCaught(w, i, o, e) ==
  LET w1 == [w EXCEPT !.ops[i] = Ended(o, e)]
  IN IF e.name = "AbortError" THEN SetLoading(w1, o.hook, FALSE)
     ELSE SetLoading(SetData(SetError(w1, o.hook, e), o.hook, NoData), o.hook, FALSE)

\* getSpecies returned to useEvolutionChain.
EvoGotSpecies(w, i, o) ==
  IF SpeciesChain(o.p.id) = <<>> THEN EvoCaught(w, i, o, NoChainError)
  ELSE [w EXCEPT !.ops[i] = [o EXCEPT !.pc = "chain"]]

\* --- a render of a hook -------------------------------------------------

\* The effect of hook h for argument q.
Effect(w, h, q) ==
  IF HookKind(h) = "usePokemon" THEN UsePokemonEffect(w, h, q)
  ELSE UseEvolutionChainEffect(w, h, q)

\* Hook h is rendered with another argument: React runs the cleanup of the
\* last effect run, then the effect.
RenderHook(w, h, q) ==
  LET c  == w.hooks[h].cleanup
      w0 == [w EXCEPT !.hooks[h].query = q,
                      !.hooks[h].cut =
                        IF c # 0 /\ w.ops[c].pc # "done" /\ ~w.ops[c].aborted
                        THEN c ELSE 0]
  IN Effect(RunCleanup(w0, h), h, q)

\* --- usePokedexLogic ----------------------------------------------------

MIN_POKE_ID == 1

MAX_POKE_ID == 1025

MAX_CUSTOM_ID == 9999

\* The state of usePokedexLogic: its four useState cells; seen is the
\* dependency list [error, lastKind] of the last run of the error effect;
\* last is the last handler called, with the number it computed; target is
\* what onChangeTarget was called with last (QNull: undefined) and
\* seenTarget the dependency list of the last run of that effect.
NoEvent == [handler |-> "-", numeric |-> FALSE, value |-> 0]

LogicState(mounted) ==
  [mounted |-> mounted, input |-> <<>>, query |-> QNull, lastKind |-> NULL,
   override |-> FALSE, seen |-> <<NoError, NULL>>, events |-> 0, last |-> NoEvent,
   target |-> QNull, seenTarget |-> <<>>]

\* The range check of onSubmit and of stepId without its upper limit.
InRangeNoUpper(n) == ~(n < MIN_POKE_ID)

\* !(n < MIN_POKE_ID || n > MAX_CUSTOM_ID)
InRange(n) == ~(n < MIN_POKE_ID \/ n > MAX_CUSTOM_ID)

\* triggerMissigno that leaves the query as it is.
TriggerMissignoKeepsQuery(w) == [w EXCEPT !.logic.override = TRUE]

\* triggerMissigno: setOverride({active: true, ...}); setQuery(null)
TriggerMissigno(w) == [w EXCEPT !.logic.override = TRUE, !.logic.query = QNull]

\* clearOverride: setOverride(null)
ClearOverride(w) == [w EXCEPT !.logic.override = FALSE]

\* data?.name ?? data?.id, the target of a render that shows data.
DataTarget(data) == IF data = NoData THEN QNull ELSE QName(data.name)

\* [data?.id, data?.name, override?.active]
TargetDeps(data, override) ==
  IF data = NoData THEN <<0, <<>>, override>> ELSE <<data.id, data.name, override>>

\* One render of usePokedexLogic and the effects that follow it, repeated
\* until no effect changes the state: usePokemon(query) runs its effect
\* when query changed; the error effect runs when error or lastKind (as
\* this render saw them) differ from its last run; the effect that
\* notifies the parent runs when the id or the name of data or
\* override.active differ from its last run.
RECURSIVE Render(_)
Render(w) ==
  LET s       == w.logic
      error   == w.hooks["p1"].error
      data    == w.hooks["p1"].data
      w1      == IF s.query # w.hooks["p1"].query
                 THEN RenderHook(w, "p1", s.query) ELSE w
      depsNow == <<error, s.lastKind>>
      w2      == IF depsNow = s.seen THEN w1
                 ELSE LET w1a == [w1 EXCEPT !.logic.seen = depsNow]
                      IN IF error # NoError /\ s.lastKind # NULL
                         THEN TriggerMissigno(w1a) ELSE w1a
      w3      == IF TargetDeps(data, s.override) = s.seenTarget THEN w2
                 ELSE [w2 EXCEPT !.logic.seenTarget = TargetDeps(data, s.override),
                                 !.logic.target = IF s.override THEN QNull
                                                  ELSE DataTarget(data)]
  IN IF w3 = w THEN w ELSE Render(w3)

\* heightM and weightKg of usePokemon: data.height / 10 and data.weight /
\* 10 (a number of tenths), or null.
NoMeasure == [null |-> TRUE, tenths |-> 0]

Tenths(n) == [null |-> FALSE, tenths |-> n]

\* renderId, renderHeight, renderWeight, renderError and renderName of
\* usePokedexLogic: the override first, then the data.
Rendered(w) ==
  LET s    == w.logic
      data == w.hooks["p1"].data
  IN [id     |-> IF s.override \/ data = NoData THEN NoNum ELSE data.id,
      height |-> IF s.override \/ data = NoData THEN NoMeasure ELSE Tenths(data.height),
      weight |-> IF s.override \/ data = NoData THEN NoMeasure ELSE Tenths(data.weight),
      error  |-> IF s.override THEN NoError ELSE w.hooks["p1"].error,
      name   |-> IF s.override THEN <<"M", "i", "s", "s", "i", "g", "n", "o">>
                 ELSE IF data = NoData THEN <<>> ELSE data.name]

\* React renders again after a state update.
Rerender(w) == IF w.logic.mounted THEN Render(w) ELSE w

\* A handler of usePokedexLogic was called.
Called(w, handler, numeric, value) ==
  [w EXCEPT !.logic.events = @ + 1,
            !.logic.last = [handler |-> handler, numeric |-> numeric, value |-> value]]

\* (prev + d).slice(0, 4)
OnDigit(w, d) ==
  LET t == w.logic.input \o NumToStr(d)
  IN [w EXCEPT !.logic.input = SubSeq(t, 1, IF Len(t) < 4 THEN Len(t) ELSE 4)]

OnClear(w) ==
  ClearOverride([w EXCEPT !.logic.input = <<>>, !.logic.lastKind = NULL])

OnSubmit(w) ==
  LET raw == Trim(w.logic.input)
      n   == ParseInt(raw).val
  IN IF raw = <<>> THEN w
     ELSE IF IsIntegerStr(raw)
     THEN LET w1 == [w EXCEPT !.logic.lastKind = "id"]
          IN IF ~InRange(n) THEN TriggerMissigno(w1)
             ELSE [ClearOverride(w1) EXCEPT !.logic.query = QId(n)]
     ELSE [ClearOverride([w EXCEPT !.logic.lastKind = "name"])
             EXCEPT !.logic.query = QName(ToLowerCase(raw))]

\* What getRandomId() may return: Math.floor(Math.random() * MAX_POKE_ID) + 1
GetRandomId == 1..MAX_POKE_ID

\* id is what getRandomId() returned.
OnRandom(w, id) ==
  [ClearOverride(w) EXCEPT !.logic.lastKind = "id",
                           !.logic.input = NumToStr(id),
                           !.logic.query = QId(id)]

StepId(w, delta) ==
  LET next == ParseInt(w.logic.input).val + delta
  IN IF ~IsIntegerStr(w.logic.input) THEN w
     ELSE LET w1 == [w EXCEPT !.logic.lastKind = "id"]
          IN IF ~InRange(next)
             THEN [TriggerMissigno(w1) EXCEPT !.logic.input = NumToStr(next)]
             ELSE [ClearOverride(w1) EXCEPT !.logic.input = NumToStr(next),
                                            !.logic.query = QId(next)]

\* The state update of a step, followed by the render it causes.
Commit(w) ==
  LET w1 == Rerender(w)
  IN /\ ops' = w1.ops
     /\ hooks' = w1.hooks
     /\ cache' = w1.cache
     /\ logic' = w1.logic
     /\ UNCHANGED <<customPokemons, renders, backend>>

\* --- getPokemonBasic and its callers ------------------------------------

\* getPokemonBasic returned p to its caller.
BasicReturned(w, i, o, p) ==
  IF o.caller = "usePokemon" THEN PokemonGotBasic(w, i, o, p)
  ELSE IF o.caller = "useEvolutionChain" THEN EvoGotBasic(w, i, o, p)
  ELSE [w EXCEPT !.ops[i] = [o EXCEPT !.pc = "done", !.p = p]]

\* getPokemonBasic threw e to its caller.
BasicThrew(w, i, o, e) ==
  IF o.caller = "usePokemon" THEN PokemonCaught(w, i, o, e)
  ELSE IF o.caller = "useEvolutionChain" THEN EvoCaught(w, i, o, e)
  ELSE [w EXCEPT !.ops[i] = [o EXCEPT !.pc = "done", !.err = e]]

\* The request to PokeAPI of getPokemonBasic settles.
PokeApiSettles(i) ==
  /\ ops[i].pc = "pokeapi"
  /\ \E net \in Network :
       LET o0 == ops[i]
           st == OfficialStep(o0.arg, Answered(o0, net))
           o  == [o0 EXCEPT !.offAnswer =
                     Answer(o0, net, OfficialLookup(SearchParam(o0.arg)).found)]
       IN Commit(IF st.ret THEN BasicReturned(World, i, o, st.p)
                 ELSE [World EXCEPT !.ops[i] =
                         [o EXCEPT !.pc = "backend", !.custAnswer = "pending"]])

\* The request to the custom store of getPokemonBasic settles.
BackendSettles(i) ==
  /\ ops[i].pc = "backend"
  /\ \E net \in Network :
       LET o0 == ops[i]
           st == CustomStep(customPokemons, o0.arg, Answered(o0, net))
           o  == [o0 EXCEPT !.custAnswer =
                     Answer(o0, net, CustomRoute(customPokemons, SearchParam(o0.arg)).found)]
       IN Commit(IF st.ret THEN BasicReturned(World, i, o, st.p)
                 ELSE BasicThrew(World, i, o, NotFoundError(o0.arg)))

\* The request of getSpecies settles.
SpeciesSettles(i) ==
  /\ ops[i].pc = "species"
  /\ \E net \in Network :
       LET o == ops[i]
       IN Commit(IF o.caller = "usePokemon"
                 THEN IF Answered(o, net) THEN PokemonGotSpecies(World, i, o)
                      ELSE PokemonCaught(World, i, o, FetchError(o))
                 ELSE IF Answered(o, net) THEN EvoGotSpecies(World, i, o)
                      ELSE EvoCaught(World, i, o, FetchError(o)))

\* fetch(chainUrl) of useEvolutionChain settles.
ChainSettles(i) ==
  /\ ops[i].pc = "chain"
  /\ \E net \in Network :
       LET o == ops[i]
       IN Commit(IF Answered(o, net)
                 THEN [World EXCEPT !.ops[i] =
                         [o EXCEPT !.pc = "sprites", !.chain = SpeciesChain(o.p.id)]]
                 ELSE EvoCaught(World, i, o, FetchError(o)))

\* enrichWithSprite settled for the next node of the chain of operation
\* o0: its sprite is stored, and what the two sources answered.
NextSprite(rows, o0, answeredO, answeredC) ==
  [o0 EXCEPT
     !.sprites = Append(@, EnrichWithSprite(rows, o0.chain[Len(o0.sprites) + 1].name,
                                            answeredO, answeredC)),
     !.lookups = Append(@, SpriteLookup(rows, o0.chain[Len(o0.sprites) + 1].name,
                                        answeredO, answeredC))]

\* The async body goes on with operation o: to the next node, or, every
\* node having its sprite, to the tree it returns.
SpriteStored(w, i, o) ==
  IF Len(o.sprites) < Len(o.chain)
  THEN [w EXCEPT !.ops[i] = o]
  ELSE IF o.caller = "buildStage"
  THEN [w EXCEPT !.ops[i] =
          [o EXCEPT !.pc = "done", !.tree = BuildStage(o.chain, o.sprites, 1)]]
  ELSE EvoFinished(w, i, o,
         IF o.p.customPokemon THEN CustomRoot(o.p, o.chain, o.sprites)
         ELSE BuildStage(o.chain, o.sprites, 1))

\* The next enrichWithSprite of useEvolutionChain settles (the lookups of
\* a tree do not depend on one another: they are taken in the order of the
\* chain); after the last one the tree is complete and the hook stores it.
SpriteSettles(i) ==
  /\ ops[i].pc = "sprites"
  /\ \E netO \in Network, netC \in Network :
       Commit(SpriteStored(World, i,
                NextSprite(customPokemons, ops[i],
                           Answered(ops[i], netO), Answered(ops[i], netC))))

\* The parent renders hook h with another argument.
ChangeQuery(h, q) ==
  /\ hooks[h].mounted
  /\ q # hooks[h].query
  /\ renders < MaxRenders
  /\ LET w2 == RenderHook(World, h, q)
     IN /\ ops' = w2.ops
        /\ hooks' = w2.hooks
        /\ cache' = w2.cache
        /\ renders' = renders + 1
        /\ UNCHANGED <<customPokemons, logic, backend>>

\* The component that uses the hook unmounts.
Unmount(h) ==
  /\ hooks[h].mounted
  /\ Commit([RunCleanup(World, h) EXCEPT !.hooks[h].mounted = FALSE])

\* --- the handlers of usePokedexLogic, called by the page -----------------

\* A handler may be called: the hook is mounted.
CanCall == logic.mounted /\ logic.events < MaxEvents

DigitPressed(d) ==
  /\ CanCall
  /\ Commit(Called(OnDigit(World, d), "onDigit", FALSE, 0))

\* The setInput the hook returns.
InputSet(text) ==
  /\ CanCall
  /\ Commit(Called([World EXCEPT !.logic.input = text], "setInput", FALSE, 0))

Cleared ==
  /\ CanCall
  /\ Commit(Called(OnClear(World), "onClear", FALSE, 0))

Submitted ==
  /\ CanCall
  /\ LET raw == Trim(logic.input)
     IN Commit(Called(OnSubmit(World), "onSubmit",
                      IsIntegerStr(raw), ParseInt(raw).val))

RandomPressed(id) ==
  /\ CanCall
  /\ Commit(Called(OnRandom(World, id), "onRandom", TRUE, id))

Stepped(delta) ==
  /\ CanCall
  /\ Commit(Called(StepId(World, delta), "stepId",
                   IsIntegerStr(logic.input), ParseInt(logic.input).val + delta))

\* ------------------------------------------------------------------------
\* getPokemonBasic called on its own, against every store of StoreChoices
\* ------------------------------------------------------------------------

rowPika == Row(25, <<"P", "i", "k", "a", "c", "h", "u">>, sElectric, "mypika.png",
               "a copy", 4, 60, TRUE, <<>>, "u1")

rowYuli == Row(1026, sYuli, Join(<<sWater, sIce>>, ","), "yuli.png",
               "un pokemon acuatico", 6, 15, FALSE, <<sYulix>>, "u1")

rowYuliLower == Row(1027, <<"y", "u", "l", "i">>, sWater, "yuli2.png",
                    "otro yuli", NoNum, NoNum, TRUE, <<>>, "u1")

rowDigits == Row(1028, <<"1", "0", "2", "6", "x">>, sIce, "x.png",
                 "nombre con digitos", 0, 0, FALSE, <<>>, "u1")

CandidateRows == <<rowPika, rowYuli, rowYuliLower, rowDigits>>

RECURSIVE SubSeqs(_)
SubSeqs(s) ==
  IF s = <<>> THEN {<<>>}
  ELSE LET rest == SubSeqs(Tail(s))
       IN rest \cup {<<Head(s)>> \o t : t \in rest}

StoreChoices == SubSeqs(CandidateRows)

DirectQueries ==
  { QId(25), QId(1026), QId(1027), QId(1028),
    QName(sYuli), QName(<<"Y", "U", "L", "I">>), QName(<<"y", "u", "l", "i">>),
    QName(<<"P", "i", "k", "a", "c", "h", "u">>),
    QName(<<"1", "0", "2", "6", "x">>), QName(<<"1", "0", "2", "6", "X">>),
    QName(<<"1", "0", "2", "6", "n">>), QName(<<"n", "o", "p", "e">>) }

\* A caller invokes getPokemonBasic(q) without a signal.
Call(q) ==
  /\ Len(ops) < MaxCalls
  /\ ops' = Append(ops, Op("direct", "-", q))
  /\ UNCHANGED <<customPokemons, hooks, cache, renders, logic, backend>>

NoHooks == [h \in HookIds |-> HookState(FALSE)]

InitResolve ==
  /\ customPokemons \in StoreChoices
  /\ ops = <<>>
  /\ hooks = NoHooks
  /\ cache = {}
  /\ renders = 0
  /\ logic = LogicState(FALSE)
  /\ backend = NoBackend

NextResolve ==
  \/ \E q \in DirectQueries : Call(q)
  \/ \E i \in DOMAIN ops : PokeApiSettles(i)
  \/ \E i \in DOMAIN ops : BackendSettles(i)

SpecResolve == InitResolve /\ [][NextResolve]_vars

\* ------------------------------------------------------------------------
\* Claims about getPokemonBasic (SpecResolve)
\* ------------------------------------------------------------------------

DirectDone == {i \in DOMAIN ops : ops[i].caller = "direct" /\ ops[i].pc = "done"}

Failed(o) == o.err # NoError

\* The store holds a row whose id or whose name (without regard to case)
\* collides with the official entry e.
Shadowed(e) ==
  \E k \in DOMAIN customPokemons :
    \/ customPokemons[k].id = e.id
    \/ ToLowerCase(customPokemons[k].name) = e.name

\* C5: whenever the official source answers the query successfully,
\* getPokemonBasic returns the official record, whatever the custom store
\* holds: no request goes to the custom store, the id is the official id
\* and the result carries no customPokemon flag.
C5_OfficialFirst ==
  \A i \in DirectDone :
    ops[i].offAnswer = "hit" =>
      /\ ~Failed(ops[i])
      /\ ops[i].custAnswer = "unsent"
      /\ ops[i].p \in OfficialCatalog
      /\ ~ops[i].p.customPokemon
      /\ SearchParam(ops[i].arg) \in {ops[i].p.name, NumToStr(ops[i].p.id)}

C5_Witness ==
  \E i \in DirectDone :
    /\ ops[i].offAnswer = "hit"
    /\ ops[i].p \in OfficialCatalog
    /\ Shadowed(ops[i].p)

\* The official source recognises neither the id nor the name of row c.
OfficialIgnores(c) ==
  /\ ~OfficialLookup(NumToStr(c.id)).found
  /\ ~OfficialLookup(ToLowerCase(c.name)).found

\* q asks for row c: by its id, or by its name in any letter case.
AsksFor(q, c) ==
  \/ q.kind = "id" /\ q.n = c.id
  \/ q.kind = "name" /\ ToLowerCase(q.s) = ToLowerCase(c.name)

\* C6: for every custom Pokemon of the store that the official source does
\* not recognise, getPokemonBasic called with its id, or with its name in
\* any letter case, returns that Pokemon's record with customPokemon = true
\* and the stored id (the official source failing with a 404 or with a
\* network error, the custom store answering).
C6_CustomFound ==
  \A i \in DirectDone : \A k \in DOMAIN customPokemons :
    LET o == ops[i]
        c == customPokemons[k]
    IN ( /\ OfficialIgnores(c)
         /\ AsksFor(o.arg, c)
         /\ o.offAnswer \in {"miss", "neterr"}
         /\ o.custAnswer \in {"hit", "miss"} )
       => /\ ~Failed(o)
          /\ o.p.customPokemon
          /\ o.p.id = c.id
          /\ o.p.name = c.name

\* The custom store recognises q as its route documents it: a number that
\* is the id of a row, or the name of a row without regard to case.
StoreRecognises(q) ==
  \E k \in DOMAIN customPokemons :
    \/ /\ IsIntegerStr(JsString(q))
       /\ ParseInt(JsString(q)).val = customPokemons[k].id
    \/ ToLowerCase(JsString(q)) = ToLowerCase(customPokemons[k].name)

\* C7: for every query that neither the official source nor the custom
\* store recognises, getPokemonBasic fails with the not-found error and
\* returns no record; and it fails only when both sources have failed.
C7_NotFound ==
  \A i \in DirectDone :
    LET o == ops[i]
    IN /\ ( ~OfficialLookup(SearchParam(o.arg)).found /\ ~StoreRecognises(o.arg) )
          => /\ o.err = NotFoundError(o.arg)
             /\ o.p = NoPokemon
       /\ Failed(o) => /\ o.offAnswer \in {"miss", "neterr", "abort"}
                       /\ o.custAnswer \in {"miss", "neterr", "abort"}

\* ------------------------------------------------------------------------
\* usePokemon: two instances of the hook on one page, sharing the cache
\* ------------------------------------------------------------------------

\* What the page passes to the hook of the main screen (p1), and the names
\* the modal passes to its own instance (p2).
PokemonQueries ==
  { QNull, QName(<<"P", "i", "k", "a", "c", "h", "u">>), QName(sPikachu) }

ModalQueries == { QName(sPikachu) }

InitPokemon ==
  /\ customPokemons = <<rowYuli>>
  /\ ops = <<>>
  /\ hooks = [h \in HookIds |-> HookState(HookKind(h) = "usePokemon")]
  /\ cache = {}
  /\ renders = 0
  /\ logic = LogicState(FALSE)
  /\ backend = NoBackend

NextPokemon ==
  \/ \E q \in PokemonQueries : ChangeQuery("p1", q)
  \/ \E q \in ModalQueries : ChangeQuery("p2", q)
  \/ \E h \in HookIds : Unmount(h)
  \/ \E i \in DOMAIN ops : PokeApiSettles(i)
  \/ \E i \in DOMAIN ops : BackendSettles(i)
  \/ \E i \in DOMAIN ops : SpeciesSettles(i)

SpecPokemon == InitPokemon /\ [][NextPokemon]_vars

\* ------------------------------------------------------------------------
\* Claims about usePokemon (SpecPokemon)
\* ------------------------------------------------------------------------

\* Every operation hook h started has run to its end.
Settled(h) == \A i \in DOMAIN ops : ops[i].hook = h => ops[i].pc = "done"

\* C1: when the query of a usePokemon instance changed from a to b while
\* the lookup for a was in flight, then once both lookups have settled the
\* visible state is that of b alone: b's record with no error when b's
\* lookup succeeded (from the cache or from the network), no data and b's
\* error when it failed.
C1_OnlyLatest ==
  \A h \in HookIds :
    LET s   == hooks[h]
        cur == s.cleanup
    IN ( /\ HookKind(h) = "usePokemon"
         /\ s.mounted
         /\ s.query.kind # "null"
         /\ s.cut # 0
         /\ Settled(h) )
       => IF cur = 0 \/ ops[cur].err = NoError
          THEN /\ s.data = CacheGet(cache, CacheKey(s.query))
               /\ s.error = NoError
          ELSE /\ s.data = NoData
               /\ s.error = [ops[cur].err EXCEPT !.name = ""]

\* The cache holds an entry stored for a name equal to q up to letter case.
StoredFor(e, q) ==
  /\ e.key.kind = "name"
  /\ q.kind = "name"
  /\ ToLowerCase(e.key.s) = ToLowerCase(q.s)

\* C9: once a lookup for a name has succeeded (the cache holds its entry),
\* every render of a usePokemon instance with a query equal to that name up
\* to letter case is served from that entry: the hook shows the stored
\* record, with no error and not loading, no operation is started and the
\* cache is left as it was.
C9_CacheHit ==
  [][\A h \in HookIds :
       ( /\ HookKind(h) = "usePokemon"
         /\ hooks'[h].query # hooks[h].query
         /\ \E e \in cache : StoredFor(e, hooks'[h].query) )
       => /\ Len(ops') = Len(ops)
          /\ cache' = cache
          /\ \E e \in cache : /\ StoredFor(e, hooks'[h].query)
                               /\ hooks'[h].data = e.val
          /\ hooks'[h].error = NoError
          /\ ~hooks'[h].loading]_vars

\* An instance that never looked the name up itself shows the record another
\* instance stored under the lowercased name, for a query typed with an
\* upper-case letter.
C9_Witness ==
  \E h \in HookIds :
    LET s == hooks[h]
    IN /\ HookKind(h) = "usePokemon"
       /\ s.mounted
       /\ s.query.kind = "name"
       /\ s.query.s # ToLowerCase(s.query.s)
       /\ s.cleanup = 0
       /\ \A i \in DOMAIN ops : ops[i].hook # h
       /\ \E i \in DOMAIN ops : /\ ops[i].pc = "done"
                                 /\ ops[i].err = NoError
                                 /\ ops[i].arg = CacheKey(s.query)
       /\ \E e \in cache : StoredFor(e, s.query) /\ s.data = e.val

\* ------------------------------------------------------------------------
\* usePokedexLogic: the main screen, with its usePokemon instance (p1)
\* ------------------------------------------------------------------------

\* The keys of the number pad, the texts typed into the search box, the
\* numbers getRandomId returns and the steps of the arrows that are tried.
PadDigits == {0}

InputTexts == { <<"9", "9", "9", "9">>, <<"1">>, <<" ", "0">> }

RandomIds == {n \in {25} : n \in GetRandomId}

Deltas == {0 - 1, 1}

\* The mount effect: setInput('chansey'); setQuery('chansey');
\* setLastKind('name'), and the render that follows.
MountLogic(w) ==
  Render([w EXCEPT !.logic.input = sChansey,
                   !.logic.query = QName(sChansey),
                   !.logic.lastKind = "name"])

InitLogic ==
  /\ customPokemons = <<rowYuli>>
  /\ renders = 0
  /\ backend = NoBackend
  /\ LET w == MountLogic([ops |-> <<>>,
                          hooks |-> [h \in HookIds |-> HookState(h = "p1")],
                          cache |-> {},
                          logic |-> LogicState(TRUE)])
     IN /\ ops = w.ops
        /\ hooks = w.hooks
        /\ cache = w.cache
        /\ logic = w.logic

NextLogic ==
  \/ \E d \in PadDigits : DigitPressed(d)
  \/ \E text \in InputTexts : InputSet(text)
  \/ Cleared
  \/ Submitted
  \/ \E id \in RandomIds : RandomPressed(id)
  \/ \E delta \in Deltas : Stepped(delta)
  \/ \E i \in DOMAIN ops : PokeApiSettles(i)
  \/ \E i \in DOMAIN ops : BackendSettles(i)
  \/ \E i \in DOMAIN ops : SpeciesSettles(i)

SpecLogic == InitLogic /\ [][NextLogic]_vars

\* ------------------------------------------------------------------------
\* Claims about usePokedexLogic (SpecLogic)
\* ------------------------------------------------------------------------

IsQuery(q) ==
  \/ q = QNull
  \/ q.kind = "name" /\ q.n = 0
  \/ q.kind = "id" /\ q.s = <<>> /\ q.n >= 1 /\ q.n <= 9999

\* The query handed to usePokemon, and every lookup it started, is null, a
\* name or an integer of [1, 9999].
QueryInRange ==
  /\ hooks["p1"].query = logic.query
  /\ IsQuery(logic.query)
  /\ \A i \in DOMAIN ops : IsQuery(ops[i].arg) /\ ops[i].arg # QNull

\* The step is a call of onSubmit or of stepId whose number is below 1 or
\* above 9999.
OutOfRangeCall ==
  /\ logic'.events = logic.events + 1
  /\ logic'.last.handler \in {"onSubmit", "stepId"}
  /\ logic'.last.numeric
  /\ (logic'.last.value < 1 \/ logic'.last.value > 9999)

\* C8: after any sequence of onDigit, setInput, onSubmit, onRandom, stepId
\* and onClear, the query handed to usePokemon is null, a name string or an
\* integer of [1, 9999]; a submit or step whose number is below 1 or above
\* 9999 starts no lookup, sets the query to null and activates the
\* Missigno override.
C8_QueryInRange ==
  /\ []QueryInRange
  /\ [][OutOfRangeCall =>
          /\ Len(ops') = Len(ops)
          /\ logic'.query = QNull
          /\ hooks'["p1"].query = QNull
          /\ logic'.override]_vars

\* stepId from 9999 to 10000, and a submit of 0, were each rejected.
C8_Witness ==
  /\ logic.last.handler \in {"onSubmit", "stepId"}
  /\ logic.last.numeric
  /\ (logic.last.value < 1 \/ logic.last.value > 9999)
  /\ logic.query = QNull
  /\ logic.override

\* C28: in every state of usePokedexLogic in which the Missigno override is
\* active, the query handed to usePokemon is null, the target reported to
\* the parent is undefined, and the rendered id, height, weight and error
\* are empty.
C28_MissignoShown ==
  (logic.mounted /\ logic.override) =>
    /\ logic.query = QNull
    /\ hooks["p1"].query = QNull
    /\ logic.target = QNull
    /\ Rendered(World).id = NoNum
    /\ Rendered(World).height = NoMeasure
    /\ Rendered(World).weight = NoMeasure
    /\ Rendered(World).error = NoError

\* Missigno is shown over the record of an earlier lookup that usePokemon
\* still holds, after a target was reported to the parent.
C28_Witness ==
  /\ logic.mounted
  /\ logic.override
  /\ hooks["p1"].data # NoData
  /\ logic.seenTarget # <<>>
  /\ logic.last.handler # "-"

\* ------------------------------------------------------------------------
\* usePokedexLogic with every request settling (SpecMissigno)
\* ------------------------------------------------------------------------

\* The texts the search box holds when the handlers start to be counted:
\* 'chansey' of the mount effect, or a text the user typed over it.
TypedTexts == InputTexts \cup {sChansey}

InitMissigno ==
  /\ customPokemons = <<rowYuli>>
  /\ renders = 0
  /\ backend = NoBackend
  /\ \E text \in TypedTexts :
       LET w0 == MountLogic([ops |-> <<>>,
                             hooks |-> [h \in HookIds |-> HookState(h = "p1")],
                             cache |-> {},
                             logic |-> LogicState(TRUE)])
           w  == Rerender([w0 EXCEPT !.logic.input = text])
       IN /\ ops = w.ops
          /\ hooks = w.hooks
          /\ cache = w.cache
          /\ logic = w.logic

\* Some operation waits for the answer to the request pc names.
Awaits(pc) == \E i \in DOMAIN ops : ops[i].pc = pc

\* A request that was sent settles: fetch resolves or rejects.  Nothing
\* obliges the user to press a key.  The settling of a request is enabled
\* exactly when an operation waits for it, and the weak fairness of the
\* second and of the third request is written with that condition.
RequestsSettle ==
  /\ WF_vars(\E i \in DOMAIN ops : PokeApiSettles(i))
  /\ \/ []<>(~Awaits("backend"))
     \/ []<><<\E i \in DOMAIN ops : BackendSettles(i)>>_vars
  /\ \/ []<>(~Awaits("species"))
     \/ []<><<\E i \in DOMAIN ops : SpeciesSettles(i)>>_vars

SpecMissigno == InitMissigno /\ [][NextLogic]_vars /\ RequestsSettle

\* Neither source knows the Pokemon the key stands for.
InNeitherSource(key) ==
  /\ ~OfficialLookup(SearchParam(key)).found
  /\ ~CustomRoute(customPokemons, SearchParam(key)).found

\* The lookup usePokemon started for the query it holds has failed, the
\* Pokemon being in neither source, without having been cancelled.
CurrentLookupFailed ==
  /\ logic.query # QNull
  /\ hooks["p1"].query = logic.query
  /\ hooks["p1"].ctrlRef # 0
  /\ LET o == ops[hooks["p1"].ctrlRef]
     IN /\ o.arg = CacheKey(logic.query)
        /\ o.pc = "done"
        /\ o.err # NoError
        /\ ~o.cut
        /\ InNeitherSource(o.arg)

\* The step is the settling of a request, not a call of a handler, and
\* it activates the override.
ActivatedByLookup ==
  /\ logic'.events = logic.events
  /\ ~logic.override
  /\ logic'.override

\* The operation that ended in the step was the lookup of the query held
\* before the step, was not cancelled, and failed.
CurrentLookupFails ==
  \E i \in DOMAIN ops :
    /\ ops[i].pc # "done"
    /\ ops'[i].pc = "done"
    /\ ~ops[i].aborted
    /\ ops[i].arg = CacheKey(logic.query)
    /\ ops'[i].err # NoError

\* C29: whenever the lookup started for the current query of
\* usePokedexLogic fails, the Pokemon being in neither source, the
\* Missigno override eventually becomes active, whatever the user did
\* before or while the lookup was in flight; and the override is never
\* activated by a lookup that was superseded or that did not fail.
C29_MissignoOnFailure ==
  /\ CurrentLookupFailed ~> logic.override
  /\ [][ActivatedByLookup => CurrentLookupFails]_vars

\* ------------------------------------------------------------------------
\* useEvolutionChain: one instance of the hook
\* ------------------------------------------------------------------------

EvoQueries == { QNull, QName(sPikachu), QName(sYuli) }

InitEvo ==
  /\ customPokemons = <<rowYuli>>
  /\ ops = <<>>
  /\ hooks = [h \in HookIds |-> HookState(h = "e1")]
  /\ cache = {}
  /\ renders = 0
  /\ logic = LogicState(FALSE)
  /\ backend = NoBackend

NextEvo ==
  \/ \E q \in EvoQueries : ChangeQuery("e1", q)
  \/ Unmount("e1")
  \/ \E i \in DOMAIN ops : PokeApiSettles(i)
  \/ \E i \in DOMAIN ops : BackendSettles(i)
  \/ \E i \in DOMAIN ops : SpeciesSettles(i)
  \/ \E i \in DOMAIN ops : ChainSettles(i)
  \/ \E i \in DOMAIN ops : SpriteSettles(i)

SpecEvo == InitEvo /\ [][NextEvo]_vars

\* ------------------------------------------------------------------------
\* Claims about useEvolutionChain (SpecEvo)
\* ------------------------------------------------------------------------

\* Operation i of useEvolutionChain takes a step after its signal was
\* aborted.
StaleStep(i) ==
  /\ ops[i].caller = "useEvolutionChain"
  /\ ops[i].aborted
  /\ ops'[i] # ops[i]

\* C2: a run of useEvolutionChain that was cancelled never writes its chain
\* into data: when it finishes building its tree, data stays what it was.
C2_NoStaleChain ==
  [][\A i \in DOMAIN ops :
       ( StaleStep(i) /\ ops'[i].pc = "done" /\ ops'[i].err = NoError )
       => hooks'[ops[i].hook].data = hooks[ops[i].hook].data]_vars

\* C3: cancelling a run of useEvolutionChain never sets error: whichever
\* request the abort interrupts, the cancelled run leaves error and data as
\* they were.
C3_CancelSilent ==
  [][\A i \in DOMAIN ops :
       StaleStep(i)
       => /\ hooks'[ops[i].hook].error = hooks[ops[i].hook].error
          /\ hooks'[ops[i].hook].data = hooks[ops[i].hook].data]_vars

\* ------------------------------------------------------------------------
\* A page with one usePokemon and one useEvolutionChain
\* ------------------------------------------------------------------------

PageQueries == { QNull, QName(sYuli) }

PageEvoQueries == { QNull, QName(sChansey) }

InitHooks ==
  /\ customPokemons = <<rowYuli>>
  /\ ops = <<>>
  /\ hooks = [h \in HookIds |-> HookState(h \in {"p1", "e1"})]
  /\ cache = {}
  /\ renders = 0
  /\ logic = LogicState(FALSE)
  /\ backend = NoBackend

NextHooks ==
  \/ \E q \in PageQueries : ChangeQuery("p1", q)
  \/ \E q \in PageEvoQueries : ChangeQuery("e1", q)
  \/ \E h \in HookIds : Unmount(h)
  \/ \E i \in DOMAIN ops : PokeApiSettles(i)
  \/ \E i \in DOMAIN ops : BackendSettles(i)
  \/ \E i \in DOMAIN ops : SpeciesSettles(i)
  \/ \E i \in DOMAIN ops : ChainSettles(i)
  \/ \E i \in DOMAIN ops : SpriteSettles(i)

SpecHooks == InitHooks /\ [][NextHooks]_vars

\* ------------------------------------------------------------------------
\* Claims about both hooks (SpecHooks)
\* ------------------------------------------------------------------------

\* The operations hook h started whose signal is not aborted.
Live(h) == {i \in DOMAIN ops : ops[i].hook = h /\ ~ops[i].aborted}

InFlight(h) == {i \in Live(h) : ops[i].pc # "done"}

\* C27: in both hooks, loading is true while the current operation (the
\* one whose signal is not aborted) is in flight, also when an operation
\* that was cancelled before settles in between; and loading is false once
\* every operation the hook started has settled.
C27_Loading ==
  \A h \in HookIds :
    hooks[h].mounted =>
      /\ InFlight(h) # {} => hooks[h].loading
      /\ Settled(h) => ~hooks[h].loading

\* ------------------------------------------------------------------------
\* The backend: server starts and the routes that touch the users table
\* ------------------------------------------------------------------------

Frontend == <<customPokemons, ops, hooks, cache, renders, logic>>

\* startServer: initializeDatabase, then app.listen; the process exits when
\* initializeDatabase throws.
StartServer ==
  /\ ~backend.listening
  /\ backend.starts < MaxStarts
  /\ LET r == InitializeDatabase(backend.users)
     IN backend' = [backend EXCEPT
                      !.users = r.users,
                      !.listening = r.ok,
                      !.starts = @ + 1,
                      !.firstAdmin = IF backend.starts = 0 THEN r.admin ELSE @]
  /\ UNCHANGED Frontend

\* SIGTERM / SIGINT: the process ends with the requests it was serving;
\* the database stays.
StopServer ==
  /\ backend.listening
  /\ backend' = [backend EXCEPT !.listening = FALSE, !.pending = {}]
  /\ UNCHANGED Frontend

\* POST /api/auth/register
Register(username, email, password) ==
  /\ backend.listening
  /\ Len(backend.users) < MaxUsers
  /\ backend' = RegisterRoute(backend, username, email, password)
  /\ UNCHANGED Frontend

\* POST /api/auth/login
Login(email, password) ==
  /\ backend.listening
  /\ backend' = LoginRoute(backend, email, password)
  /\ UNCHANGED Frontend

\* GET /api/users/:id
GetUser(token, targetId) ==
  /\ backend.listening
  /\ backend' = GetUserRoute(backend, token, targetId)
  /\ UNCHANGED Frontend

\* PATCH /api/users/:id/promote
Promote(token, targetId) ==
  /\ backend.listening
  /\ backend' = PromoteRoute(backend, token, targetId)
  /\ UNCHANGED Frontend

\* PATCH /api/users/:id/demote
Demote(token, targetId) ==
  /\ backend.listening
  /\ backend' = DemoteRoute(backend, token, targetId)
  /\ UNCHANGED Frontend

\* GET /api/users
ListUsers(token) ==
  /\ backend.listening
  /\ backend' = ListUsersRoute(backend, token)
  /\ UNCHANGED Frontend

\* GET /api/auth/me
Me(token) ==
  /\ backend.listening
  /\ backend' = MeRoute(backend, token)
  /\ UNCHANGED Frontend

\* What the clients send.
uJuan == <<"j", "u", "a", "n">>

uAna == <<"a", "n", "a">>

uBob == <<"b", "o", "b">>

eAna == <<"a", "n", "a", "@", "x", ".", "c", "o">>

eBob == <<"b", "o", "b", "@", "x", ".", "c", "o">>

pwSecret == <<"s", "e", "c", "r", "e", "t">>

Usernames == { uJuan, uAna, uBob, <<"a", "b">> }

Emails == { FIRST_ADMIN_EMAIL, eAna, eBob, <<"a", "n", "a", "@", "x">> }

\* Two passwords of 73 characters that differ in the last one.
LongPassword(c) == [i \in 1..73 |-> IF i = 73 THEN c ELSE "a"]

Passwords == { FIRST_ADMIN_PASSWORD, pwSecret, LongPassword("x"), LongPassword("y") }

\* The bodies of the registration requests: valid ones, ones whose
\* username or email may be taken, and ones that fail a validation.
Registrations ==
  { <<uAna, eAna, pwSecret>>, <<uAna, eAna, LongPassword("x")>>,
    <<uBob, eBob, pwSecret>>, <<uBob, eBob, LongPassword("y")>>,
    <<uJuan, eBob, pwSecret>>, <<uBob, eAna, pwSecret>>,
    <<uBob, FIRST_ADMIN_EMAIL, pwSecret>>,
    <<<<"a", "b">>, eBob, pwSecret>>,
    <<uBob, <<"a", "n", "a", "@", "x">>, pwSecret>>,
    <<uBob, eBob, FIRST_ADMIN_PASSWORD>> }

\* Any payload a client may present: the tokens issued are among them.
Tokens ==
  [userId : 1..MaxUsers, email : Emails, isAdmin : BOOLEAN]

\* A token the server never signed: verifyToken rejects it.
ForgedToken == [userId |-> 2, email |-> FIRST_ADMIN_EMAIL, isAdmin |-> TRUE]

\* The Authorization headers of the requests: none, a forged token, or one
\* of the tokens issued so far; and the ids the requests name.
Headers ==
  {t \in Tokens \cup {NoToken} : t = NoToken \/ t = ForgedToken \/ t \in backend.tokens}

UserIds == 1..MaxUsers

InitUsers ==
  /\ customPokemons = <<>>
  /\ ops = <<>>
  /\ hooks = NoHooks
  /\ cache = {}
  /\ renders = 0
  /\ logic = LogicState(FALSE)
  /\ backend = NoBackend

NextUsers ==
  \/ StartServer
  \/ StopServer
  \/ \E r \in Registrations : Register(r[1], r[2], r[3])
  \/ \E e \in Emails, pw \in Passwords : Login(e, pw)
  \/ \E t \in Headers, id \in UserIds : GetUser(t, id)
  \/ \E t \in Headers, id \in UserIds : Promote(t, id)
  \/ \E t \in Headers, id \in UserIds : Demote(t, id)
  \/ \E t \in Headers : ListUsers(t)
  \/ \E t \in Headers : Me(t)

SpecUsers == InitUsers /\ [][NextUsers]_vars

\* ------------------------------------------------------------------------
\* Claims about the users (SpecUsers)
\* ------------------------------------------------------------------------

FirstAdmins == {backend.users[i].id : i \in {j \in DOMAIN backend.users : backend.users[j].isFirstAdmin}}

\* C10: after the first initializeDatabase, whatever registers, logins,
\* promotions, demotions and server restarts follow, exactly one user has
\* isFirstAdmin = true, and it is the user the first initializeDatabase
\* returned.
C10_OneFirstAdmin ==
  backend.starts >= 1 =>
    /\ Cardinality(FirstAdmins) = 1
    /\ FirstAdmins = {backend.firstAdmin}

\* The server was restarted with two other users registered: one is an
\* administrator now, the other was promoted, logged in and was demoted
\* again.
C10_Witness ==
  /\ backend.starts >= 2
  /\ backend.listening
  /\ Len(backend.users) >= 3
  /\ \E i \in DOMAIN backend.users :
       backend.users[i].isAdmin /\ ~backend.users[i].isFirstAdmin
  /\ \E i \in DOMAIN backend.users :
       ~backend.users[i].isAdmin /\ [userId |-> backend.users[i].id,
                                     email |-> backend.users[i].email,
                                     isAdmin |-> TRUE] \in backend.tokens

\* The stored user of an id (the id is in the store).
UserOf(b, id) == b.users[CHOOSE i \in DOMAIN b.users : b.users[i].id = id]

Stored(b, id) == GetUserById(b.users, id) # {}

\* C11: a demote request whose target is the first administrator fails,
\* whoever the caller is (no token, an invalid token, a regular user, an
\* administrator), and the target's isAdmin and isFirstAdmin stay as they
\* were.
C11_FirstAdminStays ==
  [][backend'.last.route = "demote" =>
       \A t \in Headers, id \in UserIds :
         (/\ Stored(backend, id)
          /\ UserOf(backend, id).isFirstAdmin
          /\ Demote(t, id))
         => /\ backend'.last.status \in {401, 403}
            /\ Stored(backend', id)
            /\ UserOf(backend', id).isAdmin = UserOf(backend, id).isAdmin
            /\ UserOf(backend', id).isFirstAdmin]_vars

\* An administrator who is not the first one exists, and the demote route
\* has just refused to demote the first administrator to a caller that
\* passed the administrator gate.
C11_Witness ==
  /\ backend.last.route = "demote"
  /\ backend.last.status = 403
  /\ backend.last.body = ErrorBody("No se puede degradar al primer administrador")
  /\ \E i \in DOMAIN backend.users :
       backend.users[i].isAdmin /\ ~backend.users[i].isFirstAdmin
  /\ UserOf(backend, backend.firstAdmin).isAdmin

\* C12: for a caller that passes the administrator gate, promoting a user
\* who is an administrator answers 400 'El usuario ya es administrador',
\* demoting a user who is not an administrator answers 400 'El usuario no
\* es administrador', and in both cases the users table is unchanged.
C12_RoleErrors ==
  [][backend'.last.route \in {"promote", "demote"} =>
       \A t \in Headers, id \in UserIds :
         /\ (/\ AdminGate(backend, t).status = 0
             /\ Stored(backend, id)
             /\ UserOf(backend, id).isAdmin
             /\ Promote(t, id))
            => /\ backend'.last.status = 400
               /\ backend'.last.body = ErrorBody("El usuario ya es administrador")
               /\ backend'.users = backend.users
         /\ (/\ AdminGate(backend, t).status = 0
             /\ Stored(backend, id)
             /\ ~UserOf(backend, id).isAdmin
             /\ Demote(t, id))
            => /\ backend'.last.status = 400
               /\ backend'.last.body = ErrorBody("El usuario no es administrador")
               /\ backend'.users = backend.users]_vars

\* The promote route has just answered 'already administrator' for a user
\* that an earlier promote made administrator.
C12_Witness ==
  /\ backend.last.route = "promote"
  /\ backend.last.status = 400
  /\ backend.last.body = ErrorBody("El usuario ya es administrador")
  /\ \E i \in DOMAIN backend.users :
       backend.users[i].isAdmin /\ ~backend.users[i].isFirstAdmin

\* C13: a promote or demote request that changes the users table comes
\* from a caller who is an administrator in the users table when the
\* request is processed.
C13_AdminCaller ==
  [][(backend'.last.route \in {"promote", "demote"} /\ backend'.users # backend.users) =>
       \A t \in Headers, id \in UserIds :
         (Promote(t, id) \/ Demote(t, id))
         => /\ Stored(backend, t.userId)
            /\ UserOf(backend, t.userId).isAdmin]_vars

\* Registration data that passes validations 1 to 5 of the register route.
ValidRegistration(u, e, pw) == RegisterValidation(u, e, pw).status = 0

\* C14: a registration with valid data whose email and username are not in
\* the store answers 201; logging in right after it with the same email
\* and password answers 200 with a token and a user of that email with
\* isAdmin = false, and logging in with that email and any other password
\* answers 401.
C14_RegisterThenLogin ==
  [][backend'.last.route = "register" =>
       \A u \in Usernames, e \in Emails, pw \in Passwords :
         (/\ <<u, e, pw>> \in Registrations
          /\ ValidRegistration(u, e, pw)
          /\ CanCreate(backend.users, NewUser(u, e, pw))
          /\ Register(u, e, pw))
         => /\ backend'.last.status = 201
            /\ \A pw2 \in Passwords :
                 LET r == LoginRoute(backend', e, pw2).last
                 IN IF pw2 = pw
                    THEN /\ r.status = 200
                         /\ r.body.user.email = e
                         /\ r.body.user.isAdmin = FALSE
                         /\ r.body.token \in LoginRoute(backend', e, pw2).tokens
                    ELSE r.status = 401]_vars

\* C17: GET /api/users/:id answers with the fields of the user only to the
\* user itself (the token's userId is the id) or to a token with isAdmin =
\* true; a valid token of a regular user that asks for another stored user
\* gets 403 and an error body.
C17_SelfOrAdmin ==
  [][backend'.last.route = "getUser" =>
       \A t \in Headers, id \in UserIds :
         GetUser(t, id)
         => /\ backend'.last.status = 200
                 => /\ t.userId = id \/ t.isAdmin
                    /\ t \in backend.tokens
                    /\ backend'.last.body = UserFields(UserOf(backend, id))
            /\ (/\ t \in backend.tokens /\ ~t.isAdmin /\ t.userId # id
                /\ Stored(backend, id))
                 => /\ backend'.last.status = 403
                    /\ backend'.last.body =
                         ErrorBody("No tienes permisos para ver este usuario")]_vars

\* A regular user has just been refused another user's fields.
C17_Witness ==
  /\ backend.last.route = "getUser"
  /\ backend.last.status = 403
  /\ backend.last.body = ErrorBody("No tienes permisos para ver este usuario")
  /\ \E t \in backend.tokens : ~t.isAdmin
  /\ Len(backend.users) >= 2

\* ------------------------------------------------------------------------
\* Registrations served concurrently (SpecRegister)
\* ------------------------------------------------------------------------

\* POST /api/auth/register up to `await createUser`: the handler answers
\* 400 or 409, or it has passed the checks and its createUser is queued
\* while other requests are served.
RegisterReceived(username, email, password) ==
  /\ backend.listening
  /\ Len(backend.users) + Cardinality(backend.pending) < MaxUsers
  /\ <<username, email, password>> \notin backend.pending
  /\ LET c == RegisterChecks(backend, username, email, password)
     IN backend' = IF c.cont
                   THEN [backend EXCEPT !.pending = @ \cup {<<username, email, password>>}]
                   ELSE c.b
  /\ UNCHANGED Frontend

\* The rest of the handler: createUser runs, the handler answers 201, or
\* 500 from its catch when the create throws.
RegisterCreated(r) ==
  /\ backend.listening
  /\ r \in backend.pending
  /\ backend' = RegisterCreate([backend EXCEPT !.pending = @ \ {r}], r[1], r[2], r[3])
  /\ UNCHANGED Frontend

\* Requests for the same email under two usernames, among others.
ConcurrentRegistrations ==
  { <<uAna, eAna, pwSecret>>, <<uBob, eAna, pwSecret>>, <<uBob, eBob, pwSecret>>,
    <<uAna, eBob, LongPassword("x")>>, <<uBob, FIRST_ADMIN_EMAIL, pwSecret>>,
    <<uBob, <<"a", "n", "a", "@", "x">>, pwSecret>> }

NextRegister ==
  \/ StartServer
  \/ StopServer
  \/ \E r \in ConcurrentRegistrations : RegisterReceived(r[1], r[2], r[3])
  \/ \E r \in ConcurrentRegistrations : RegisterCreated(r)
  \/ \E e \in {eAna, eBob}, pw \in {pwSecret} : Login(e, pw)

SpecRegister == InitUsers /\ [][NextRegister]_vars

EmailStored(b, email) == GetUserByEmail(b.users, email) # {}

\* No two rows of the users table have the same email.
UniqueEmails ==
  \A i, j \in DOMAIN backend.users :
    backend.users[i].email = backend.users[j].email => i = j

\* C18: a registration whose email is in the users table when the request
\* arrives, or when its createUser runs after another request for the same
\* email was served in between, is answered 409 and creates no user.  (That
\* no two stored users ever share an email is UniqueEmails.)
C18_DuplicateEmail ==
  [][backend'.last.route = "register" =>
       \A r \in ConcurrentRegistrations :
         (/\ RegisterValidation(r[1], r[2], r[3]).status = 0
          /\ EmailStored(backend, r[2])
          /\ RegisterReceived(r[1], r[2], r[3]) \/ RegisterCreated(r))
         => /\ backend'.last.status = 409
            /\ backend'.users = backend.users]_vars

\* ------------------------------------------------------------------------
\* The backend: the routes that write the custom_pokemons table (SpecCustom)
\* ------------------------------------------------------------------------

MaxRows == 2

\* A JSON value of a request body where the route expects an array: absent,
\* an array of strings, or something else (a string, a number).
Undefined == [kind |-> "undefined", list |-> <<>>]

Array(list) == [kind |-> "array", list |-> list]

NotArray == [kind |-> "other", list |-> <<>>]

\* users.id is a text key (a UUID): the key of the k-th user created.
UserKey(id) == <<"u1", "u2", "u3", "u4", "u5">>[id]

\* INTEGER PRIMARY KEY AUTOINCREMENT: one more than the largest id the table
\* ever held (rows are never deleted), 1 for the first row.
RECURSIVE MaxId(_)
MaxId(rows) ==
  IF rows = <<>> THEN 0
  ELSE LET m == MaxId(Tail(rows)) IN IF Head(rows).id > m THEN Head(rows).id ELSE m

AutoIncrement(rows) == MaxId(rows) + 1

\* createCustomPokemon: [rows, pokemon], the table with the new row and the
\* created row as the read functions format it.
CreateCustomPokemon(rows, name, types, sprite, description, evolutions, createdBy, height, weight) ==
  LET row == Row(AutoIncrement(rows), name, Join(types, ","), sprite, description,
                 height, weight, evolutions.kind = "undefined", evolutions.list,
                 createdBy)
  IN [rows |-> Append(rows, row), pokemon |-> FormatRow(row)]

\* prisma.customPokemon.update that writes the evolutions of every row.
UpdateEveryRow(rows, pokemonId, evolutions) ==
  [i \in DOMAIN rows |-> [rows[i] EXCEPT !.evolutions = [null |-> FALSE, list |-> evolutions]]]

\* updateCustomPokemonEvolutions (the row exists): evolutions becomes the
\* JSON text of the list.
UpdateCustomPokemonEvolutions(rows, pokemonId, evolutions) ==
  [i \in DOMAIN rows |->
     IF rows[i].id = pokemonId
     THEN [rows[i] EXCEPT !.evolutions = [null |-> FALSE, list |-> evolutions]]
     ELSE rows[i]]

\* Validations 2 to 9 of POST /api/pokemon/custom.  name is text, sprite
\* and description are opaque strings ("" when missing or blank), height
\* and weight are numbers or NoNum when absent.
PostValidation(body) ==
  IF body.name = <<>> \/ body.types.kind = "undefined" \/ body.sprite = ""
     \/ body.description = ""
  THEN Reject(400, "Campos requeridos: name, types, sprite, description")
  ELSE IF Len(Trim(body.name)) = 0 \/ Len(body.name) > 100
  THEN Reject(400, "name debe ser una cadena no vacia de maximo 100 caracteres")
  ELSE IF body.types.kind # "array" \/ Len(body.types.list) = 0 \/ Len(body.types.list) > 2
  THEN Reject(400, "types debe ser un array con 1-2 elementos")
  ELSE IF ~(\A i \in DOMAIN body.types.list :
              Len(body.types.list[i]) > 0 /\ Len(body.types.list[i]) < 50)
  THEN Reject(400, "Cada tipo debe ser una cadena valida (maximo 50 caracteres)")
  ELSE IF body.height # NoNum /\ (body.height < 0 \/ body.height > 100)
  THEN Reject(400, "height debe ser un numero entre 0 y 100")
  ELSE IF body.weight # NoNum /\ (body.weight < 0 \/ body.weight > 1000)
  THEN Reject(400, "weight debe ser un numero entre 0 y 1000")
  ELSE IF body.evolutions.kind = "other"
  THEN Reject(400, "evolutions debe ser un array")
  ELSE CallNext

\* POST /api/pokemon/custom: [b, rows].
PostCustomRoute(b, rows, token, body) ==
  LET a == AdminGate(b, token)
      v == PostValidation(body)
      c == CreateCustomPokemon(rows, Trim(body.name), body.types.list, body.sprite,
                               body.description, body.evolutions,
                               UserKey(token.userId), body.height, body.weight)
  IN IF a.status # 0
     THEN [b |-> Respond(b, "postCustom", a.status, ErrorBody(a.error)), rows |-> rows]
     ELSE IF GetUserById(b.users, token.userId) = {}
     THEN [b |-> Respond(b, "postCustom", 404, ErrorBody("Usuario no encontrado")),
           rows |-> rows]
     ELSE IF v.status # 0
     THEN [b |-> Respond(b, "postCustom", v.status, ErrorBody(v.error)), rows |-> rows]
     ELSE [b |-> Respond(b, "postCustom", 201,
                         [message |-> "Pokemon personalizado creado exitosamente",
                          pokemon |-> c.pokemon]),
           rows |-> c.rows]

\* Validations 1 to 3 of PUT /api/pokemon/custom/:id.
PutValidation(evolutions) ==
  IF evolutions.kind # "array" THEN Reject(400, "evolutions debe ser un array")
  ELSE IF Len(evolutions.list) > 10 THEN Reject(400, "No puede haber mas de 10 evoluciones")
  ELSE IF ~(\A i \in DOMAIN evolutions.list :
              Len(Trim(evolutions.list[i])) > 0 /\ Len(evolutions.list[i]) < 100)
  THEN Reject(400, "Cada evolucion debe ser una cadena valida (1-100 caracteres)")
  ELSE CallNext

\* The search of PUT /api/pokemon/custom/:id: by id when parseInt gives a
\* number, else (or when no row has that id) the first row whose name is
\* the parameter without regard to case: [found, id].
PutSearch(rows, idParam) ==
  LET numId == ParseInt(idParam)
      byId  == IF numId.nan THEN [found |-> FALSE, row |-> NoRow]
               ELSE GetCustomPokemonById(rows, numId.val)
      all   == GetAllCustomPokemons(rows)
      named == {i \in DOMAIN all : ToLowerCase(all[i].name) = ToLowerCase(idParam)}
      first == CHOOSE i \in named : \A j \in named : i <= j
  IN IF byId.found THEN [found |-> TRUE, id |-> numId.val]
     ELSE IF named # {} THEN [found |-> TRUE, id |-> all[first].id]
     ELSE [found |-> FALSE, id |-> 0]

\* PUT /api/pokemon/custom/:id: [b, rows].
PutCustomRoute(b, rows, token, idParam, evolutions) ==
  LET a       == AdminGate(b, token)
      v       == PutValidation(evolutions)
      hit     == PutSearch(rows, idParam)
      updated == UpdateCustomPokemonEvolutions(rows, hit.id, evolutions.list)
  IN IF a.status # 0
     THEN [b |-> Respond(b, "putCustom", a.status, ErrorBody(a.error)), rows |-> rows]
     ELSE IF v.status # 0
     THEN [b |-> Respond(b, "putCustom", v.status, ErrorBody(v.error)), rows |-> rows]
     ELSE IF ~hit.found
     THEN [b |-> Respond(b, "putCustom", 404, ErrorBody("Pokemon no encontrado")),
           rows |-> rows]
     ELSE [b |-> Respond(b, "putCustom", 200,
                         [message |-> "Pokemon actualizado exitosamente",
                          pokemon |-> GetCustomPokemonById(updated, hit.id).row]),
           rows |-> updated]

\* POST /api/pokemon/custom
PostCustom(token, body) ==
  /\ backend.listening
  /\ Len(customPokemons) < MaxRows
  /\ LET r == PostCustomRoute(backend, customPokemons, token, body)
     IN backend' = r.b /\ customPokemons' = r.rows
  /\ UNCHANGED <<ops, hooks, cache, renders, logic>>

\* PUT /api/pokemon/custom/:id
PutCustom(token, idParam, evolutions) ==
  /\ backend.listening
  /\ LET r == PutCustomRoute(backend, customPokemons, token, idParam, evolutions)
     IN backend' = r.b /\ customPokemons' = r.rows
  /\ UNCHANGED <<ops, hooks, cache, renders, logic>>

\* The backend once the server was started, ana has registered and the
\* first administrator has logged in: two users, the token of a regular
\* user and the token of an administrator.
CustomBackend ==
  LET b0 == [NoBackend EXCEPT !.users = InitializeDatabase(<<>>).users,
                              !.listening = TRUE, !.starts = 1, !.firstAdmin = 1]
      b1 == RegisterRoute(b0, uAna, eAna, pwSecret)
      b2 == LoginRoute(b1, FIRST_ADMIN_EMAIL, FIRST_ADMIN_PASSWORD)
  IN [b2 EXCEPT !.last = NoResponse]

\* The body of a POST /api/pokemon/custom request.
Body(name, types, sprite, description, height, weight, evolutions) ==
  [name |-> name, types |-> types, sprite |-> sprite, description |-> description,
   height |-> height, weight |-> weight, evolutions |-> evolutions]

\* Bodies the route accepts.
ValidBodies ==
  { Body(sYuli, Array(<<sWater, sIce>>), "yuli.png", "un pokemon acuatico", 6, 15,
         Array(<<sYulix>>)),
    Body(<<" ">> \o sYulix, Array(<<sIce>>), "yulix.png", "su evolucion", NoNum, NoNum,
         Undefined),
    Body(sRaichu, Array(<<sWater, sWater>>), "r.png", "dos veces agua", 0, 0, Array(<<>>)),
    Body(<<"7", "n">>, Array(<<Join(<<sWater, sIce>>, ","), sNormal>>), "n.png",
         "un tipo con coma", NoNum, NoNum, Undefined),
    Body(sPikachu, Array(<<sElectric>>), "p.png", "once evoluciones", 4, 60,
         Array([i \in 1..11 |-> IF i = 1 THEN <<>> ELSE sRaichu])) }

\* Bodies that fail a validation.
InvalidBodies ==
  { Body(sYuli, Array(<<>>), "yuli.png", "sin tipos", 6, 15, Undefined),
    Body(sYuli, Array(<<sWater, sIce, sNormal>>), "yuli.png", "tres tipos", 6, 15, Undefined),
    Body(sYuli, Array(<<sWater, <<>>>>), "yuli.png", "tipo vacio", 6, 15, Undefined),
    Body(sYuli, NotArray, "yuli.png", "tipos en texto", 6, 15, Undefined),
    Body(sYuli, Undefined, "yuli.png", "sin campo types", 6, 15, Undefined),
    Body(<<" ">>, Array(<<sWater>>), "yuli.png", "nombre en blanco", 6, 15, Undefined),
    Body(sYuli, Array(<<sWater>>), "", "sin sprite", 6, 15, Undefined),
    Body(sYuli, Array(<<sWater>>), "yuli.png", "muy alto", 101, 15, Undefined),
    Body(sYuli, Array(<<sWater>>), "yuli.png", "muy pesado", 6, 1001, Undefined),
    Body(sYuli, Array(<<sWater>>), "yuli.png", "evoluciones en texto", 6, 15, NotArray) }

Bodies == ValidBodies \cup InvalidBodies

\* The :id parameters of the PUT requests: ids, a number followed by a
\* letter, names.
IdParams ==
  { <<"1">>, <<"2">>, <<"1", "x">>, <<"7", "n">>, <<"y", "u", "l", "i">> }

\* The evolutions of the PUT requests: lists the route accepts, more than
\* ten names, a blank name, no array.
EvolutionInputs ==
  { Array(<<>>), Array(<<sYulix, sRaichu>>),
    Array([i \in 1..11 |-> sRaichu]), Array(<<<<" ">>>>), NotArray }

InitCustom ==
  /\ customPokemons = <<>>
  /\ ops = <<>>
  /\ hooks = NoHooks
  /\ cache = {}
  /\ renders = 0
  /\ logic = LogicState(FALSE)
  /\ backend = CustomBackend

NextCustom ==
  \/ \E t \in Headers, body \in Bodies : PostCustom(t, body)
  \/ \E t \in Headers, id \in IdParams, evo \in EvolutionInputs : PutCustom(t, id, evo)

SpecCustom == InitCustom /\ [][NextCustom]_vars

\* ------------------------------------------------------------------------
\* Claims about the custom_pokemons table (SpecCustom)
\* ------------------------------------------------------------------------

\* The request carries no token, a token the server did not sign, or a
\* token whose isAdmin is false.
NotAdminHeader(t) == t = NoToken \/ t \notin backend.tokens \/ ~t.isAdmin

\* C15: in every reachable state, a POST /api/pokemon/custom or PUT
\* /api/pokemon/custom/:id request without a token, with an invalid token
\* or with a token whose isAdmin is false is answered 401 or 403 and leaves
\* the custom_pokemons table as it was.
C15_AdminOnly ==
  \A t \in Headers :
    NotAdminHeader(t) =>
      /\ \A body \in Bodies :
           LET r == PostCustomRoute(backend, customPokemons, t, body)
           IN r.b.last.status \in {401, 403} /\ r.rows = customPokemons
      /\ \A id \in IdParams, evo \in EvolutionInputs :
           LET r == PutCustomRoute(backend, customPokemons, t, id, evo)
           IN r.b.last.status \in {401, 403} /\ r.rows = customPokemons

\* A request of a regular user's valid token has just been refused by the
\* administrator gate while the table holds a custom Pokemon.
C15_Witness ==
  /\ backend.last.route \in {"postCustom", "putCustom"}
  /\ backend.last.status = 403
  /\ backend.last.body = ErrorBody("Se requiere permisos de administrador")
  /\ Len(customPokemons) >= 1
  /\ \E t \in backend.tokens : ~t.isAdmin

\* C16: in every reachable state, a PUT answered 200 changes the
\* evolutions of one row, the row whose id the response carries, to the
\* list of the request; every other column of that row and every other row
\* are as before, and no row is added or removed.  A PUT answered 400 or
\* 404 leaves the table as it was.
C16_OnlyEvolutions ==
  \A t \in Headers, id \in IdParams, evo \in EvolutionInputs :
    LET r    == PutCustomRoute(backend, customPokemons, t, id, evo)
        res  == r.b.last
    IN /\ res.status = 200
            => /\ DOMAIN r.rows = DOMAIN customPokemons
               /\ \E k \in DOMAIN customPokemons :
                    /\ customPokemons[k].id = res.body.pokemon.id
                    /\ r.rows[k] =
                         [customPokemons[k] EXCEPT
                            !.evolutions = [null |-> FALSE, list |-> evo.list]]
                    /\ \A j \in DOMAIN customPokemons :
                         j # k => r.rows[j] = customPokemons[j]
       /\ res.status \in {400, 404} => r.rows = customPokemons

\* A PUT has just been answered 200 with a non-empty list for one of two
\* rows, and the other row has other evolutions.
C16_Witness ==
  /\ backend.last.route = "putCustom"
  /\ backend.last.status = 200
  /\ Len(customPokemons) = 2
  /\ backend.last.body.pokemon.evolutions # <<>>
  /\ \E j \in DOMAIN customPokemons :
       /\ customPokemons[j].id # backend.last.body.pokemon.id
       /\ customPokemons[j].evolutions # [null |-> FALSE,
                                          list |-> backend.last.body.pokemon.evolutions]

\* C19: every row of custom_pokemons has an id of at least 1026 (no id of
\* the official range 1..1025) that is greater than the id of every row
\* created before it.
C19_CustomIds ==
  \A k \in DOMAIN customPokemons :
    /\ customPokemons[k].id >= MAX_POKE_ID + 1
    /\ \A j \in 1..(k - 1) : customPokemons[j].id < customPokemons[k].id

\* C20: every record the read functions return has a types list of one or
\* two entries without a duplicate.
C20_TypesWellFormed ==
  LET all == GetAllCustomPokemons(customPokemons)
  IN \A k \in DOMAIN all :
       /\ Len(all[k].types) \in {1, 2}
       /\ \A i, j \in DOMAIN all[k].types :
            all[k].types[i] = all[k].types[j] => i = j

\* The administrator tokens among the headers.
AdminHeaders == {t \in Headers : ~NotAdminHeader(t)}

\* The lists a body submits: its types, and its evolutions (none when the
\* field is omitted).
SubmittedTypes(body) == body.types.list

SubmittedEvolutions(body) == IF body.evolutions.kind = "array" THEN body.evolutions.list ELSE <<>>

\* C21: in every reachable state, for every body POST /api/pokemon/custom
\* accepts (201), the record of the response, the record GET
\* /api/pokemon/custom/{id} returns for the new id and the record of that id
\* in GET /api/pokemon/custom have types and evolutions equal to the lists
\* of the body (an omitted evolutions list reads back empty).
C21_ReadBack ==
  \A t \in AdminHeaders, body \in Bodies :
    LET r    == PostCustomRoute(backend, customPokemons, t, body)
        made == r.b.last.body.pokemon
        byId == CustomRoute(r.rows, NumToStr(made.id))
        all  == GetAllCustomPokemons(r.rows)
    IN r.b.last.status = 201 =>
         /\ made.types = SubmittedTypes(body)
         /\ made.evolutions = SubmittedEvolutions(body)
         /\ byId.found
         /\ byId.row.types = SubmittedTypes(body)
         /\ byId.row.evolutions = SubmittedEvolutions(body)
         /\ \E k \in DOMAIN all :
              /\ all[k].id = made.id
              /\ all[k].types = SubmittedTypes(body)
              /\ all[k].evolutions = SubmittedEvolutions(body)

\* ------------------------------------------------------------------------
\* More claims about the users (SpecUsers)
\* ------------------------------------------------------------------------

\* The status every token-protected route answers to header t in the state.
ProtectedStatuses(t) ==
  {ListUsersRoute(backend, t).last.status, MeRoute(backend, t).last.status}
  \cup {GetUserRoute(backend, t, id).last.status : id \in UserIds}
  \cup {PromoteRoute(backend, t, id).last.status : id \in UserIds}
  \cup {DemoteRoute(backend, t, id).last.status : id \in UserIds}
  \cup {PostCustomRoute(backend, customPokemons, t, body).b.last.status : body \in Bodies}
  \cup {PutCustomRoute(backend, customPokemons, t, id, evo).b.last.status :
          id \in IdParams, evo \in EvolutionInputs}

\* C22: in every reachable state, each token-protected route (GET
\* /api/users, GET /api/users/:id, promote, demote, GET /api/auth/me, POST
\* and PUT /api/pokemon/custom) answers 401 to a request without a token
\* and to a request whose token the server does not accept (invalid or
\* expired).
C22_Unauthorized ==
  \A t \in Headers :
    (t = NoToken \/ t \notin backend.tokens) => ProtectedStatuses(t) = {401}

\* The stored users that are administrators.
Admins == {i \in DOMAIN backend.users : backend.users[i].isAdmin}

\* C23: once the first initializeDatabase has run, whatever registers,
\* logins, promotions, demotions (an administrator demoting itself among
\* them) and restarts follow, the user with isFirstAdmin = true has
\* isAdmin = true, so at least one stored user is an administrator.
C23_AdminRemains ==
  backend.starts >= 1 =>
    /\ \E i \in DOMAIN backend.users :
         backend.users[i].isFirstAdmin /\ backend.users[i].isAdmin
    /\ Admins # {}

\* A demotion has just succeeded and left the first administrator as the
\* only administrator; the demoted user still holds a token with
\* isAdmin = true.
C23_Witness ==
  /\ backend.last.route = "demote"
  /\ backend.last.status = 200
  /\ Cardinality(Admins) = 1
  /\ \A i \in Admins : backend.users[i].isFirstAdmin
  /\ [userId |-> backend.last.body.user.id, email |-> backend.last.body.user.email,
      isAdmin |-> TRUE] \in backend.tokens

\* ------------------------------------------------------------------------
\* More claims about the custom_pokemons table (SpecCustom)
\* ------------------------------------------------------------------------

\* C24: after any sequence of accepted POST /api/pokemon/custom and PUT
\* /api/pokemon/custom/:id requests, every stored custom Pokemon has at
\* most 10 evolutions, each of them a non-empty string.
C24_EvolutionsBounded ==
  LET all == GetAllCustomPokemons(customPokemons)
  IN \A k \in DOMAIN all :
       /\ Len(all[k].evolutions) <= 10
       /\ \A i \in DOMAIN all[k].evolutions : all[k].evolutions[i] # <<>>

\* ------------------------------------------------------------------------
\* useEvolutionChain for custom Pokemon (SpecCustomEvo)
\* ------------------------------------------------------------------------

\* Yuli evolves into Yulix, into an entry with an empty name and into
\* pikachu; Yulix has an evolution of its own.
rowYuliEvo == Row(1026, sYuli, Join(<<sWater, sIce>>, ","), "yuli.png",
                  "un pokemon acuatico", 6, 15, FALSE, <<sYulix, <<>>, sPikachu>>, "u1")

rowYulix == Row(1027, sYulix, sIce, "yulix.png", "su evolucion", 6, 15, FALSE,
                <<sRaichu>>, "u1")

CustomEvoQueries == { QNull, QName(sYuli) }

InitCustomEvo ==
  /\ customPokemons = <<rowYuliEvo, rowYulix>>
  /\ ops = <<>>
  /\ hooks = [h \in HookIds |-> HookState(h = "e1")]
  /\ cache = {}
  /\ renders = 0
  /\ logic = LogicState(FALSE)
  /\ backend = NoBackend

NextCustomEvo ==
  \/ \E q \in CustomEvoQueries : ChangeQuery("e1", q)
  \/ Unmount("e1")
  \/ \E i \in DOMAIN ops : PokeApiSettles(i)
  \/ \E i \in DOMAIN ops : BackendSettles(i)
  \/ \E i \in DOMAIN ops : SpriteSettles(i)

SpecCustomEvo == InitCustomEvo /\ [][NextCustomEvo]_vars

\* Operation i of useEvolutionChain hands the tree of a custom Pokemon to
\* setData in this step, the hook being mounted.
CustomTreeProduced(i) ==
  /\ ops[i].caller = "useEvolutionChain"
  /\ \/ ops[i].pc = "backend"
     \/ ops[i].pc = "sprites" /\ ops[i].p.customPokemon
  /\ ops'[i].pc = "done"
  /\ ops'[i].err = NoError
  /\ hooks[ops[i].hook].mounted

\* C25: the tree useEvolutionChain produces for a custom Pokemon is one
\* level deep: the root has detailsFromPrev = null and one child per entry
\* of the evolutions of the stored record, in the order of that list (the
\* child of an entry carries the name the hook reads from the entry), and
\* every child has detailsFromPrev = null and no children, whatever
\* evolutions the targets have themselves.
C25_OneLevel ==
  [][\A i \in DOMAIN ops :
       CustomTreeProduced(i) =>
         LET root   == hooks'[ops[i].hook].data
             record == CustomRoute(customPokemons, SearchParam(ops[i].arg)).row
         IN /\ root.name = record.name
            /\ root.detailsFromPrev = NullDetails
            /\ Len(root.children) = Len(record.evolutions)
            /\ \A k \in DOMAIN root.children :
                 /\ root.children[k].name = ChildName(record.evolutions[k])
                 /\ root.children[k].detailsFromPrev = NullDetails
                 /\ root.children[k].children = <<>>]_vars

\* The hook shows the tree of a custom Pokemon with three children, one of
\* them a custom Pokemon that has an evolution of its own, one of them an
\* official Pokemon whose chain has an evolution.
C25_Witness ==
  LET root == hooks["e1"].data
  IN /\ root # NoData
     /\ CustomRoute(customPokemons, root.name).found
     /\ Len(root.children) = 3
     /\ \E k \in DOMAIN root.children :
          /\ CustomRoute(customPokemons, root.children[k].name).found
          /\ CustomRoute(customPokemons, root.children[k].name).row.evolutions # <<>>
     /\ \E k \in DOMAIN root.children :
          /\ OfficialLookup(root.children[k].name).found
          /\ Len(SpeciesChain(OfficialLookup(root.children[k].name).p.id)) > 1

\* ------------------------------------------------------------------------
\* buildStage called on its own, on every chain of UpstreamChains (SpecBuild)
\* ------------------------------------------------------------------------

sNope == <<"n", "o", "p", "e">>

\* Upstream chains: one stage; two stages; a root with two branches, one
\* of them with an evolution; three branches.  Their species are official
\* entries with an artwork, with a front sprite only, with no sprite at
\* all, the custom Pokemon of the store, and a name no source knows.
UpstreamChains ==
  { <<ChainNode(sChansey, 0, NullDetails)>>,
    <<ChainNode(sDitto, 0, NullDetails), ChainNode(sNope, 1, NullDetails)>>,
    <<ChainNode(sPikachu, 0, NullDetails),
      ChainNode(sRaichu, 1, RawDetails("use-item", 0)),
      ChainNode(sDitto, 2, RawDetails("level-up", 30)),
      ChainNode(sYuli, 1, RawDetails("trade", 0)),
      ChainNode(sNope, 1, NullDetails)>>,
    <<ChainNode(sYuli, 0, NullDetails),
      ChainNode(sChansey, 1, RawDetails("level-up", 16)),
      ChainNode(sDitto, 1, RawDetails("level-up", 16)),
      ChainNode(sPikachu, 3, RawDetails("trade", 0)),
      ChainNode(sRaichu, 4, RawDetails("use-item", 0))>> }

\* A caller invokes buildStage(chain.chain) without a signal: the lookup
\* of the sprite of the root is sent.
CallBuildStage(chain) ==
  /\ Len(ops) < MaxCalls
  /\ ops' = Append(ops, [Op("buildStage", "-", QNull) EXCEPT
                           !.pc = "sprites", !.offAnswer = "-", !.chain = chain])
  /\ UNCHANGED <<customPokemons, hooks, cache, renders, logic, backend>>

InitBuild ==
  /\ customPokemons = <<rowYuli>>
  /\ ops = <<>>
  /\ hooks = NoHooks
  /\ cache = {}
  /\ renders = 0
  /\ logic = LogicState(FALSE)
  /\ backend = NoBackend

NextBuild ==
  \/ \E chain \in UpstreamChains : CallBuildStage(chain)
  \/ \E i \in DOMAIN ops : SpriteSettles(i)

SpecBuild == InitBuild /\ [][NextBuild]_vars

\* The lookup of a node failed, or what it returned had no sprite.
NoSprite(l) == l.threw \/ l.raw = NULL \/ l.raw = ""

\* The stage is node k of the chain: its name, a null sprite exactly when
\* the node has NoSprite (else the sprite the lookup read), and one child
\* for each branch of the node, in their order, each the stage of its
\* branch.
RECURSIVE StageOf(_, _, _, _)
StageOf(stage, chain, lookups, k) ==
  /\ stage.name = chain[k].name
  /\ stage.sprite = NULL <=> NoSprite(lookups[k])
  /\ stage.sprite # NULL => stage.sprite = lookups[k].raw
  /\ Len(stage.children) = Len(Branches(chain, k))
  /\ \A b \in DOMAIN stage.children :
       StageOf(stage.children[b], chain, lookups, Branches(chain, k)[b])

BuildStageDone == {i \in DOMAIN ops : ops[i].caller = "buildStage" /\ ops[i].pc = "done"}

\* C26: for every upstream chain and every set of sprite lookups that
\* fail, buildStage looks every node up and returns a tree with the shape
\* and the species names of the chain, in which exactly the nodes whose
\* lookup failed or returned no sprite have sprite = null; the root has
\* detailsFromPrev = null, and the root of a chain without evolutions has
\* no children.
C26_SameShape ==
  /\ \A i \in DOMAIN ops :
       ops[i].caller = "buildStage" =>
         /\ ops[i].pc = "done" <=> Len(ops[i].lookups) = Len(ops[i].chain)
         /\ ops[i].pc \in {"sprites", "done"}
  /\ \A i \in BuildStageDone :
       /\ StageOf(ops[i].tree, ops[i].chain, ops[i].lookups, 1)
       /\ ops[i].tree.detailsFromPrev = NullDetails
       /\ Len(ops[i].chain) = 1 => ops[i].tree.children = <<>>

\* buildStage returned the tree of a chain with two branches under its
\* root and an evolution under one of them; one lookup failed, one returned
\* an entry without a sprite, one found a sprite.
C26_Witness ==
  \E i \in BuildStageDone :
    LET o == ops[i]
    IN /\ Len(Branches(o.chain, 1)) >= 2
       /\ \E k \in DOMAIN o.chain : o.chain[k].parent > 1
       /\ \E k \in DOMAIN o.lookups : o.lookups[k].threw
       /\ \E k \in DOMAIN o.lookups : ~o.lookups[k].threw /\ o.lookups[k].raw = NULL
       /\ \E k \in DOMAIN o.lookups : ~NoSprite(o.lookups[k])
       /\ Len(o.tree.children) >= 2

\* ------------------------------------------------------------------------
\* usePokemon over entries of both sources (SpecMapping)
\* ------------------------------------------------------------------------

\* The arguments usePokemon is rendered with: an official entry with an
\* artwork, one with no sprite at all, a custom one by name and a custom
\* one by id.
MappingQueries == { QNull, QName(sPikachu), QId(132), QName(sYuli), QId(1028) }

InitMapping ==
  /\ customPokemons = <<rowYuli, rowDigits>>
  /\ ops = <<>>
  /\ hooks = [h \in HookIds |-> HookState(h = "p1")]
  /\ cache = {}
  /\ renders = 0
  /\ logic = LogicState(FALSE)
  /\ backend = NoBackend

NextMapping ==
  \/ \E q \in MappingQueries : ChangeQuery("p1", q)
  \/ Unmount("p1")
  \/ \E i \in DOMAIN ops : PokeApiSettles(i)
  \/ \E i \in DOMAIN ops : BackendSettles(i)
  \/ \E i \in DOMAIN ops : SpeciesSettles(i)

SpecMapping == InitMapping /\ [][NextMapping]_vars

\* A mapped record read as the raw input of the mapping, field by field
\* under the same names: id, name, types, height and weight are there (the
\* types as strings), sprites and flavor_text_entries are not.
ReadAsRaw(m, custom) ==
  Pokemon(m.id, m.name, NULL, NULL, [i \in DOMAIN m.types |-> TypeString(m.types[i])],
          m.height, m.weight, <<>>, <<>>, custom)

\* The records usePokemon has produced: what it holds and what it cached.
MappedRecords ==
  {hooks[h].data : h \in {g \in {"p1", "p2"} : hooks[g].data # NoData}}
    \cup {e.val : e \in cache}

\* The record came out of the custom branch, of the official branch.
FromCustom(m) ==
  \E k \in DOMAIN customPokemons :
    m = MapCustom(TransformCustom(FormatRow(customPokemons[k])))

FromOfficial(m) == \E p \in OfficialCatalog : m = MapOfficial(p, SpeciesFlavor(p.id))

\* C30: the mapping of usePokemon from a raw lookup result to a
\* PokemonBasic record is idempotent: applied to a record it produced, read
\* as raw input under the same field names, the custom branch and the
\* official branch each give back that record, equal in id, name, sprite,
\* types, height, weight and flavorText.
C30_Idempotent ==
  \A m \in MappedRecords :
    /\ FromCustom(m) => MapCustom(ReadAsRaw(m, TRUE)) = m
    /\ FromOfficial(m) =>
         /\ ~MapOfficialThrows(ReadAsRaw(m, FALSE))
         /\ MapOfficial(ReadAsRaw(m, FALSE), SpeciesFlavor(m.id)) = m

====
